---- MODULE Spec2Model ----
(***************************************************************************)
(* A state-machine model of the three-sun orchestrator                     *)
(* (ThreeSunService), its eruption scheduler (startSolarEruptionLoop /     *)
(* stopSolarEruptionLoop and the window.setTimeout timers they arm), the   *)
(* host component's set-up and tear-down, the SolarFlare entities with the *)
(* two shader materials each of them owns, the surface shader              *)
(* (SunShaderService), the body's rotation and the coronas (SunCorona and  *)
(* SunCoronaService).                                                      *)
(*                                                                         *)
(* Numbers.  Times (deltaTime, age, lifetime) are whole ticks; timer       *)
(* delays are whole milliseconds; an opacity is held in quarters (4 is     *)
(* 1.0), which is exact for fade*fade at the angles the configurations     *)
(* below produce; the other tunable shader values are held in hundredths   *)
(* and colours as their hex strings.  A Math.random() result, a            *)
(* rotationReactivity, a rotationDecay and a reactive accumulator are      *)
(* fractions <<num, den>>.  The counts that the code passes through        *)
(* Math.floor (count, plasmaTrails, flareCount) are configured as          *)
(* numerators over the configuration's den.  Arithmetic is that of the     *)
(* reals: the rounding of IEEE doubles is not modelled.                    *)
(***************************************************************************)
EXTENDS Integers, Sequences, FiniteSets, TLC

(***************************************************************************)
(* Bounds of the model.                                                    *)
(***************************************************************************)
\* flares ever constructed in one run
MaxFlares == 2
\* window.setTimeout calls in one run
MaxTimers == 3
\* the largest value the surface shader's time uniform reaches, in ticks
MaxTime == 4
\* the largest magnitude a component of the body's rotation reaches
MaxRotation == 4

(***************************************************************************)
(* Program constants.                                                      *)
(***************************************************************************)
\* the fixed delay of the re-check armed while the document is hidden
HiddenDelay == 1000

\* 10000 * (Math.PI * 2), rounded: the wrap limit of a corona's rotationAccumulator
TwoPi4 == 62832

\* the SunCorona revisions the source holds; a build uses one of them
CoronaRevisions == {"classes/sun-corona.ts", "part_007", "part_008"}

\* camera positions, in units of half the re-orientation threshold (0.0005)
CameraPositions == {<<0, 0, 10000>>, <<0, 0, 10001>>, <<0, 0, 10003>>}

\* deltaTime: the frame times, in ticks, the model draws from
DeltaTimes == {0, 1, 2}

\* the entries the orchestrator's list of flares may hold when a direct call of
\* spawnSolarFlare adds one
MaxListed == 3

\* Math.random(): the fractions in [0, 1) the model draws from
RandomDraws == {<<0, 1>>, <<1, 2>>}

(***************************************************************************)
(* Configurations (ThreeSunOptions.solarEruptions and the flare shader     *)
(* options).  min/max pairs are <<min, max>>.                              *)
(***************************************************************************)
\* solarEruptions.flareOptions.shader: the defaults with the given opacity and speed
FlareShader(opacity, speed) ==
  [ emissiveStrength |-> 120, opacity |-> opacity, distortionScale |-> 100,
    fadeStart |-> 45, fadeEnd |-> 49, noiseScaleX |-> 400, noiseScaleY |-> 150,
    speed |-> speed ]

\* the count and interval ranges vary; every flare gets the same options
SchedulerConfigs ==
  { [ den |-> 1, count |-> <<1, 5>>, interval |-> <<500, 5000>>,
      size |-> <<2, 2>>, lifetime |-> <<2, 2>>, plasmaTrails |-> <<1, 1>>,
      flareCount |-> <<1, 1>>, turbulance |-> <<1, 1>>,
      shader |-> FlareShader(4, 1) ],
    [ den |-> 1, count |-> <<0, 2>>, interval |-> <<1000, 1000>>,
      size |-> <<2, 2>>, lifetime |-> <<1, 1>>, plasmaTrails |-> <<1, 1>>,
      flareCount |-> <<2, 2>>, turbulance |-> <<0, 0>>,
      shader |-> FlareShader(4, 1) ] }

\* ranges at their limits
RangeConfigs ==
  { \* every range is a point; the floored counts are 3/2, 5/2 and 3/2
    [ den |-> 2, count |-> <<3, 3>>, interval |-> <<700, 700>>,
      size |-> <<3, 3>>, lifetime |-> <<2, 2>>, plasmaTrails |-> <<5, 5>>,
      flareCount |-> <<3, 3>>, turbulance |-> <<1, 1>>,
      shader |-> FlareShader(4, 1) ],
    \* every range is a point of whole numbers
    [ den |-> 1, count |-> <<1, 1>>, interval |-> <<900, 900>>,
      size |-> <<10, 10>>, lifetime |-> <<4, 4>>, plasmaTrails |-> <<2, 2>>,
      flareCount |-> <<3, 3>>, turbulance |-> <<0, 0>>,
      shader |-> FlareShader(4, 1) ],
    \* invalid ranges: max < min for count, interval, size and turbulance
    [ den |-> 1, count |-> <<2, 0>>, interval |-> <<5000, 500>>,
      size |-> <<4, 2>>, lifetime |-> <<1, 1>>, plasmaTrails |-> <<1, 1>>,
      flareCount |-> <<1, 1>>, turbulance |-> <<2, 0>>,
      shader |-> FlareShader(4, 1) ] }

\* the flare options vary
FlareConfigs ==
  { \* lifetimes vary, one or two flares per eruption
    [ den |-> 1, count |-> <<1, 3>>, interval |-> <<500, 5000>>,
      size |-> <<10, 10>>, lifetime |-> <<2, 6>>, plasmaTrails |-> <<4, 4>>,
      flareCount |-> <<2, 2>>, turbulance |-> <<1, 1>>,
      shader |-> FlareShader(4, 1) ],
    \* degenerate values: no flare, no panel, a lifetime of zero or below
    [ den |-> 1, count |-> <<0, 2>>, interval |-> <<1000, 1000>>,
      size |-> <<2, 2>>, lifetime |-> <<0, -2>>, plasmaTrails |-> <<1, 1>>,
      flareCount |-> <<0, 2>>, turbulance |-> <<0, 2>>,
      shader |-> FlareShader(2, 0) ],
    \* a fixed count of two short flares
    [ den |-> 1, count |-> <<2, 2>>, interval |-> <<500, 1500>>,
      size |-> <<2, 2>>, lifetime |-> <<1, 3>>, plasmaTrails |-> <<1, 1>>,
      flareCount |-> <<1, 1>>, turbulance |-> <<0, 0>>,
      shader |-> FlareShader(4, 2) ] }

(***************************************************************************)
(* Configurations (ThreeSunOptions.rotation, .shader and .coronas).        *)
(***************************************************************************)
\* ThreeSunConfig.options.shader
DefaultShaderOptions ==
  [ baseColor |-> "#fff9df", hotColor |-> "#ffee00", deepColor |-> "#4b0000",
    distortionStrength |-> 10, emissiveStrength |-> 200, fbmFrequency |-> 2500,
    brightness |-> 100, contrastPower |-> 225, fbmScale |-> 180, fbmOffset |-> 40,
    emissiveThresholdMin |-> 20, emissiveThresholdMax |-> 100,
    emissiveColor |-> "#cc7a00ff" ]

\* the shader options of an options object a host passes to initSun
OverrideShaderOptions ==
  [ baseColor |-> "#ffd000ff", hotColor |-> "#ff0000", deepColor |-> "#000000",
    distortionStrength |-> 50, emissiveStrength |-> 100, fbmFrequency |-> 300,
    brightness |-> 150, contrastPower |-> 150, fbmScale |-> 100, fbmOffset |-> 20,
    emissiveThresholdMin |-> 75, emissiveThresholdMax |-> 90,
    emissiveColor |-> "#ffffff" ]

\* one element of options.coronas: ThreeSunConfig's values with the given ones
CoronaOptions(isActive, syncWithSun, speed, rotationReactivity, rotationDecay) ==
  [ active |-> isActive, glowColor |-> "#cc7a00ff", flareStrength |-> 150,
    baseGlowStrength |-> 100, radialFalloff |-> 200, flareFalloff |-> 250,
    edgeFadeStart |-> 20, edgeFadeEnd |-> 50, baseGlowThreshold |-> 35,
    animationSpeed |-> 1, speed |-> speed, syncWithSun |-> syncWithSun,
    wrapRotation |-> TRUE, rotationReactivity |-> rotationReactivity,
    rotationDecay |-> rotationDecay, enableMultiAxisReaction |-> FALSE,
    scale |-> 1, enablePulsing |-> FALSE, pulseFrequency |-> <<117, 500>>,
    pulseAmplitude |-> 1, reactiveScaling |-> <<1, 20>> ]

\* the sun of the scheduler and flare specifications: a body at rest, no corona
QuietSun ==
  [ rotation |-> [direction |-> <<0, 1, 0>>, speed |-> 0],
    shader |-> DefaultShaderOptions,
    coronas |-> << >> ]

\* the options objects of the surface specification
SunConfigs ==
  { \* one corona that follows the body's rotation
    [ rotation |-> [direction |-> <<0, 1, 0>>, speed |-> 2],
      shader |-> DefaultShaderOptions,
      coronas |-> << CoronaOptions(TRUE, TRUE, 1, <<1, 2>>, <<1, 2>>) >> ],
    \* a body turning about two axes; a spinning corona that starts switched off
    [ rotation |-> [direction |-> <<1, 0, -1>>, speed |-> 1],
      shader |-> OverrideShaderOptions,
      coronas |-> << CoronaOptions(FALSE, FALSE, 4, <<1, 1>>, <<1, 4>>) >> ] }

\* the options objects of the spin specification: a body at rest
SpinConfigs ==
  { \* two coronas that spin in opposite directions
    [ rotation |-> [direction |-> <<0, 1, 0>>, speed |-> 0],
      shader |-> DefaultShaderOptions,
      coronas |-> << CoronaOptions(TRUE, FALSE, 4, <<1, 2>>, <<1, 2>>),
                     CoronaOptions(TRUE, FALSE, -4, <<1, 2>>, <<1, 2>>) >> ],
    \* one slow corona that starts switched off and has the multi-axis reaction on
    [ rotation |-> [direction |-> <<0, 1, 0>>, speed |-> 0],
      shader |-> DefaultShaderOptions,
      coronas |-> << [CoronaOptions(FALSE, FALSE, -3, <<1, 2>>, <<1, 2>>)
                        EXCEPT !.enableMultiAxisReaction = TRUE] >> ] }

\* the eruptions of the parts specification: two flares of one panel each
PartsEruptions ==
  [ den |-> 1, count |-> <<2, 2>>, interval |-> <<1000, 1000>>,
    size |-> <<10, 10>>, lifetime |-> <<1, 1>>, plasmaTrails |-> <<4, 4>>,
    flareCount |-> <<1, 1>>, turbulance |-> <<1, 1>>,
    shader |-> FlareShader(4, 1) ]

\* the options objects of the parts specification: a body at rest
PartsConfigs ==
  { \* two coronas that follow the body's rotation, the second one switched off
    [ rotation |-> [direction |-> <<0, 1, 0>>, speed |-> 0],
      shader |-> DefaultShaderOptions,
      coronas |-> << [CoronaOptions(TRUE, TRUE, 1, <<1, 2>>, <<1, 2>>)
                        EXCEPT !.animationSpeed = 2],
                     [CoronaOptions(FALSE, TRUE, 2, <<1, 2>>, <<1, 2>>)
                        EXCEPT !.animationSpeed = 2] >> ],
    \* two coronas switched on, with other shader options
    [ rotation |-> [direction |-> <<0, 1, 0>>, speed |-> 0],
      shader |-> OverrideShaderOptions,
      coronas |-> << [CoronaOptions(TRUE, TRUE, 1, <<1, 2>>, <<1, 2>>)
                        EXCEPT !.animationSpeed = 2],
                     [CoronaOptions(TRUE, TRUE, 2, <<1, 2>>, <<1, 2>>)
                        EXCEPT !.animationSpeed = 2] >> ] }

\* the options objects of the reaction specification: a body turning about its y
\* axis, and coronas whose reactive options are configured as 0
ReactConfigs ==
  { \* a pulsing corona that follows the body's rotation
    [ rotation |-> [direction |-> <<0, 1, 0>>, speed |-> 1],
      shader |-> DefaultShaderOptions,
      coronas |-> << [CoronaOptions(TRUE, TRUE, 1, <<0, 1>>, <<1, 2>>)
                        EXCEPT !.enablePulsing = TRUE,
                               !.reactiveScaling = <<0, 1>>] >> ],
    \* a corona that spins on its own, with a pulse of amplitude 0
    [ rotation |-> [direction |-> <<0, 1, 0>>, speed |-> 2],
      shader |-> DefaultShaderOptions,
      coronas |-> << [CoronaOptions(TRUE, FALSE, 2, <<0, 1>>, <<1, 2>>)
                        EXCEPT !.enablePulsing = TRUE,
                               !.pulseAmplitude = 0,
                               !.reactiveScaling = <<1, 10>>] >> ] }


VARIABLES
  cfg,                     \* this.options (solarEruptions, flare shader options)
  active,                  \* this.options.solarEruptions.active
  visible,                 \* document.visibilityState === 'visible'
  initialised,             \* initSun has run: scene, camera and sunMesh are set
  running,                 \* the host component's requestAnimationFrame loop is live
  timers,                  \* the ids of the pending window.setTimeout timers
  nextTimerId,             \* the id the next window.setTimeout call returns
  solarEruptionIntervalId, \* ThreeSunService.solarEruptionIntervalId (0: undefined)
  solarFlares,             \* ThreeSunService.solarFlares: flare ids in list order
  flares,                  \* every SolarFlare constructed so far, by id
  scene,                   \* the flare meshes in ThreeSunService.scene
  last,                    \* the most recent operation and what it did
  everActive,              \* solarEruptions.active has been true at some time
  halted,                  \* "stop" / "destroy": stopSolarEruptionLoop / ngOnDestroy
                           \* has returned and the loop was not started since
  objects,                 \* the options objects: config.options and a host's override
  optionsRef,              \* this.options: the object it refers to
  sunMesh,                 \* ThreeSunService.sunMesh: its rotation
  shader,                  \* ThreeSunService.shader: its options and uniforms
  coronas,                 \* ThreeSunService.coronas
  camera,                  \* ThreeSunService.camera: its position
  revision,                \* the SunCorona revision of the build
  elapsed,                 \* the sum of the deltaTimes passed to ThreeSunService.animate
  input                    \* one input of the editor, and the Color objects it refers to

\* the surface, the coronas and what they read
sunVars == << objects, optionsRef, sunMesh, shader, coronas, camera, revision,
             elapsed >>

vars == << cfg, active, visible, initialised, running, timers, nextTimerId,
           solarEruptionIntervalId, solarFlares, flares, scene, last, everActive,
           halted, objects, optionsRef, sunMesh, shader, coronas, camera, revision,
           elapsed, input >>

(***************************************************************************)
(* Numbers that may be NaN (uniform values written from fade).             *)
(***************************************************************************)
Num(v) == [nan |-> FALSE, val |-> v]
NaN == [nan |-> TRUE, val |-> 0]

(***************************************************************************)
(* ThreeSunService.randomBetween and generateRandomFlareOptions.           *)
(***************************************************************************)
\* min + Math.random() * (max - min), for the draw r = <<num, den>>
RandomBetween(min, max, r) == min + (r[1] * (max - min)) \div r[2]

\* the draw leaves a whole number: RandomBetween is then exact
ExactDraws(pair) ==
  \A r \in RandomDraws : (r[1] * (pair[2] - pair[1])) % r[2] = 0

\* Math.floor(randomBetween(min / den, max / den))
FloorRandomBetween(min, max, den, r) ==
  (min * r[2] + r[1] * (max - min)) \div (den * r[2])

\* the lifetimes at which every age is a multiple of pi/6 or pi/4 of the fade curve
FadeExact(l) == l <= 0 \/ l \in {1, 2, 3, 4, 6}

\* the configurations whose drawn reals are whole, so that the model is exact
ConfigExact(c) ==
  /\ ExactDraws(c.interval) /\ ExactDraws(c.size)
  /\ ExactDraws(c.lifetime) /\ ExactDraws(c.turbulance)
  /\ \A r \in RandomDraws :
       FadeExact(RandomBetween(c.lifetime[1], c.lifetime[2], r))

\* one Math.random() result per field, in the order the fields are drawn
FlareDraws == [size : RandomDraws, lifetime : RandomDraws, plasmaTrails : RandomDraws,
               flareCount : RandomDraws, turbulance : RandomDraws]

\* generateRandomFlareOptions with the counts rounded up (Math.ceil)
generateRandomFlareOptions_CeilsCounts(c, d) ==
  [ size |-> RandomBetween(c.size[1], c.size[2], d.size),
    lifetime |-> RandomBetween(c.lifetime[1], c.lifetime[2], d.lifetime),
    plasmaTrails |-> 0 - FloorRandomBetween(0 - c.plasmaTrails[1], 0 - c.plasmaTrails[2],
                                            c.den, d.plasmaTrails),
    flareCount |-> 0 - FloorRandomBetween(0 - c.flareCount[1], 0 - c.flareCount[2],
                                          c.den, d.flareCount),
    turbulance |-> RandomBetween(c.turbulance[1], c.turbulance[2], d.turbulance) ]

\* ThreeSunService.generateRandomFlareOptions for the draws d
generateRandomFlareOptions(c, d) ==
  [ size |-> RandomBetween(c.size[1], c.size[2], d.size),
    lifetime |-> RandomBetween(c.lifetime[1], c.lifetime[2], d.lifetime),
    plasmaTrails |-> FloorRandomBetween(c.plasmaTrails[1], c.plasmaTrails[2], c.den,
                                        d.plasmaTrails),
    flareCount |-> FloorRandomBetween(c.flareCount[1], c.flareCount[2], c.den,
                                      d.flareCount),
    turbulance |-> RandomBetween(c.turbulance[1], c.turbulance[2], d.turbulance) ]

(***************************************************************************)
(* The fade curve of SolarFlare.animate:                                   *)
(*   fade = Math.max(Math.sin((age / lifetime) * Math.PI), 0)              *)
(* held as fade*fade in quarters.  k counts twelfths of pi.                *)
(***************************************************************************)
\* 4 * sin(k*pi/12)^2 where that is rational
SinSq4(k) ==
  CASE k % 12 = 0 -> 0
    [] k % 12 \in {2, 10} -> 1
    [] k % 12 \in {3, 9} -> 2
    [] k % 12 \in {4, 8} -> 3
    [] k % 12 = 6 -> 4

\* sin(k*pi/12) > 0
SinPositive(k) == k % 24 \in 1..11

\* fade * fade, in quarters; NaN when age / lifetime is 0/0 or infinite
FadeSq(age, lifetime) ==
  IF lifetime = 0 THEN NaN
  ELSE LET k == IF lifetime > 0 THEN (12 * age) \div lifetime
                 ELSE 0 - ((12 * age) \div (0 - lifetime))
       IN  IF SinPositive(k) THEN Num(SinSq4(k)) ELSE Num(0)

(***************************************************************************)
(* SolarFlare and SolarFlareService.  The operators below act on a world   *)
(*   w = [solarFlares, flares, scene]                                      *)
(* and return the world the call leaves.  A mesh is <<flare, layer, i>>.   *)
(***************************************************************************)
World == [solarFlares |-> solarFlares, flares |-> flares, scene |-> scene]

\* Array.prototype.indexOf: the first index holding x, 0 when there is none
IndexOf(seq, x) ==
  IF \E i \in 1..Len(seq) : seq[i] = x
  THEN CHOOSE i \in 1..Len(seq) : seq[i] = x /\ \A j \in 1..(i - 1) : seq[j] # x
  ELSE 0

\* Array.prototype.splice(index, 1)
Splice(seq, i) == [j \in 1..(Len(seq) - 1) |-> IF j < i THEN seq[j] ELSE seq[j + 1]]

Range(seq) == {seq[i] : i \in 1..Len(seq)}

\* SolarFlareService.createFlareMaterial: the uniforms of one flare material
createFlareMaterial(shaderOptions) ==
  [ time |-> 0, resolution |-> <<1, 1>>,
    baseColor |-> shaderOptions.baseColor, hotColor |-> shaderOptions.hotColor,
    deepColor |-> shaderOptions.deepColor,
    emissiveStrength |-> shaderOptions.emissiveStrength,
    opacity |-> Num(shaderOptions.opacity),
    noiseScaleX |-> shaderOptions.noiseScaleX, noiseScaleY |-> shaderOptions.noiseScaleY,
    fadeStart |-> shaderOptions.fadeStart, fadeEnd |-> shaderOptions.fadeEnd,
    distortionScale |-> shaderOptions.distortionScale ]

\* new SolarFlare(sun, options, shaderOptions): the fields and both materials' uniforms.
\* A mesh scale (the same on x, y and z) is held as 400 times its square, with its sign.
NewSolarFlare(options, shaderOptions) ==
  [ options |-> options, shaderOptions |-> shaderOptions,
    age |-> 0, destroyed |-> FALSE,
    fallingBackMeshes |-> << >>, flyAwayMeshes |-> << >>,
    fallingBackScale |-> << >>, flyAwayScale |-> << >>,
    fallingBack |-> createFlareMaterial(shaderOptions),
    flyAway |-> createFlareMaterial(shaderOptions) ]

\* SolarFlare.spawnSolarFlare for the flare with id f
spawnSolarFlare(w, f) ==
  LET n == w.flares[f].options.flareCount
      fb == [i \in 1..n |-> <<f, "fallingBack", Len(w.flares[f].fallingBackMeshes) + i>>]
      fa == [i \in 1..n |-> <<f, "flyAway", Len(w.flares[f].flyAwayMeshes) + i>>]
  IN  [ solarFlares |-> Append(w.solarFlares, f),
        flares |-> [w.flares EXCEPT ![f].fallingBackMeshes = @ \o fb,
                                    ![f].flyAwayMeshes = @ \o fa,
                                    ![f].fallingBackScale = @ \o [i \in 1..n |-> Num(400)],
                                    ![f].flyAwayScale = @ \o [i \in 1..n |-> Num(400)]],
        scene |-> w.scene \cup Range(fb) \cup Range(fa) ]

\* FlareDestroy that leaves the flare in the orchestrator's list
FlareDestroy_KeepsListed(w, f) ==
  IF w.flares[f].destroyed THEN w
  ELSE [ solarFlares |-> w.solarFlares,
         flares |-> [w.flares EXCEPT ![f].flyAwayMeshes = << >>,
                                     ![f].fallingBackMeshes = << >>,
                                     ![f].flyAwayScale = << >>,
                                     ![f].fallingBackScale = << >>,
                                     ![f].destroyed = TRUE],
         scene |-> (w.scene \ Range(w.flares[f].flyAwayMeshes))
                      \ Range(w.flares[f].fallingBackMeshes) ]

\* FlareDestroy with the falling-back meshes left in the scene
FlareDestroy_KeepsFallingBack(w, f) ==
  IF w.flares[f].destroyed THEN w
  ELSE LET index == IndexOf(w.solarFlares, f)
       IN  [ solarFlares |-> IF index # 0 THEN Splice(w.solarFlares, index)
                             ELSE w.solarFlares,
             flares |-> [w.flares EXCEPT ![f].flyAwayMeshes = << >>,
                                         ![f].fallingBackMeshes = << >>,
                                         ![f].flyAwayScale = << >>,
                                         ![f].fallingBackScale = << >>,
                                         ![f].destroyed = TRUE],
             scene |-> w.scene \ Range(w.flares[f].flyAwayMeshes) ]

\* SolarFlare.destroy
FlareDestroy(w, f) ==
  IF w.flares[f].destroyed THEN w
  ELSE LET index == IndexOf(w.solarFlares, f)
       IN  [ solarFlares |-> IF index # 0 THEN Splice(w.solarFlares, index)
                             ELSE w.solarFlares,
             flares |-> [w.flares EXCEPT ![f].flyAwayMeshes = << >>,
                                         ![f].fallingBackMeshes = << >>,
                                         ![f].flyAwayScale = << >>,
                                         ![f].fallingBackScale = << >>,
                                         ![f].destroyed = TRUE],
             scene |-> (w.scene \ Range(w.flares[f].flyAwayMeshes))
                          \ Range(w.flares[f].fallingBackMeshes) ]

\* the uniforms SolarFlareService.animate copies from its options into one material
SyncFlareMaterial(mat, shaderOptions) ==
  [mat EXCEPT !.baseColor = shaderOptions.baseColor,
              !.hotColor = shaderOptions.hotColor,
              !.deepColor = shaderOptions.deepColor,
              !.emissiveStrength = shaderOptions.emissiveStrength,
              !.opacity = Num(shaderOptions.opacity),
              !.noiseScaleX = shaderOptions.noiseScaleX,
              !.noiseScaleY = shaderOptions.noiseScaleY,
              !.fadeStart = shaderOptions.fadeStart,
              !.fadeEnd = shaderOptions.fadeEnd,
              !.distortionScale = shaderOptions.distortionScale]

\* SolarFlareService.animate: both materials' time and synced options
SolarFlareServiceAnimate(fl, deltaTime) ==
  LET t == deltaTime * fl.shaderOptions.speed
  IN  [fl EXCEPT !.fallingBack = SyncFlareMaterial([@ EXCEPT !.time = @ + t],
                                                   fl.shaderOptions),
                 !.flyAway = SyncFlareMaterial([@ EXCEPT !.time = @ + t],
                                               fl.shaderOptions)]

\* AnimateLayer that leaves the opacity SolarFlareService.animate wrote
AnimateLayer_KeepsOpacity(mat, meshes, fade2, deltaTime, turbulance) ==
  IF Len(meshes) = 0 THEN mat
  ELSE [mat EXCEPT !.time = @ + Len(meshes) * deltaTime * turbulance]

\* the forEach over one layer's meshes, all of which share the layer's material
AnimateLayer(mat, meshes, fade2, deltaTime, turbulance) ==
  IF Len(meshes) = 0 THEN mat
  ELSE [mat EXCEPT !.time = @ + Len(meshes) * deltaTime * turbulance,
                   !.opacity = fade2]

\* ScaleOf with the scale taken from fade * fade, as the opacity is
ScaleOf_FromOpacity(size, fade2) ==
  IF fade2.nan THEN NaN
  ELSE Num(((IF size < 0 THEN 0 - 1 ELSE 1) * size * size * fade2.val * fade2.val) \div 4)

\* (size * fade) / 10, as 400 times its square with its sign; fade2 is FadeSq
ScaleOf(size, fade2) ==
  IF fade2.nan THEN NaN
  ELSE Num((IF size < 0 THEN 0 - 1 ELSE 1) * size * size * fade2.val)

\* AnimateLive for flares that all hold the two materials of one service
AnimateLive_SharedMaterials(w, f, deltaTime) ==
  LET aged == [w.flares[f] EXCEPT !.age = @ + deltaTime]
      synced == SolarFlareServiceAnimate(aged, deltaTime)
      fade2 == FadeSq(aged.age, aged.options.lifetime)
      flyAway == AnimateLayer(synced.flyAway, synced.flyAwayMeshes, fade2,
                              deltaTime, aged.options.turbulance)
      fallingBack == AnimateLayer(synced.fallingBack, synced.fallingBackMeshes, fade2,
                                  deltaTime, aged.options.turbulance)
  IN  [w EXCEPT !.flares = [b \in DOMAIN w.flares |->
                              [(IF b = f THEN synced ELSE w.flares[b])
                                 EXCEPT !.flyAway = flyAway,
                                        !.fallingBack = fallingBack]]]

\* SolarFlare.animate from the age update to the end of the mesh loops
AnimateLive(w, f, deltaTime) ==
  LET aged == [w.flares[f] EXCEPT !.age = @ + deltaTime]
      synced == SolarFlareServiceAnimate(aged, deltaTime)
      fade2 == FadeSq(aged.age, aged.options.lifetime)
      scale == ScaleOf(aged.options.size, fade2)
      done == [synced EXCEPT
                 !.flyAway = AnimateLayer(@, synced.flyAwayMeshes, fade2,
                                          deltaTime, aged.options.turbulance),
                 !.flyAwayScale = [i \in 1..Len(synced.flyAwayMeshes) |-> scale],
                 !.fallingBack = AnimateLayer(@, synced.fallingBackMeshes, fade2,
                                              deltaTime, aged.options.turbulance),
                 !.fallingBackScale = [i \in 1..Len(synced.fallingBackMeshes) |-> scale]]
  IN  [w EXCEPT !.flares[f] = done]

\* FlareAnimate with the expiry test age > lifetime
FlareAnimate_ExpiresLate(w, f, deltaTime) ==
  IF w.flares[f].destroyed THEN w
  ELSE LET w1 == AnimateLive(w, f, deltaTime)
       IN  IF w1.flares[f].age > w1.flares[f].options.lifetime
           THEN FlareDestroy(w1, f)
           ELSE w1

\* FlareAnimate with the expiry test normalizedAge >= 1, normalizedAge being
\* age / lifetime (NaN for 0/0, infinite for a positive age over 0)
FlareAnimate_ExpiresByNormalizedAge(w, f, deltaTime) ==
  IF w.flares[f].destroyed THEN w
  ELSE LET w1 == AnimateLive(w, f, deltaTime)
           age == w1.flares[f].age
           lifetime == w1.flares[f].options.lifetime
       IN  IF (lifetime > 0 /\ age >= lifetime) \/ (lifetime = 0 /\ age > 0)
           THEN FlareDestroy(w1, f)
           ELSE w1

\* FlareAnimate without the destroyed guard
FlareAnimate_NoDestroyedGuard(w, f, deltaTime) ==
  LET w1 == AnimateLive(w, f, deltaTime)
  IN  IF w1.flares[f].age >= w1.flares[f].options.lifetime
      THEN FlareDestroy(w1, f)
      ELSE w1

\* SolarFlare.animate
FlareAnimate(w, f, deltaTime) ==
  IF w.flares[f].destroyed THEN w
  ELSE \* w1: the world as the flare's own update leaves it
       CHOOSE r \in { IF w1.flares[f].age >= w1.flares[f].options.lifetime
                      THEN FlareDestroy(w1, f)
                      ELSE w1 : w1 \in {AnimateLive(w, f, deltaTime)} } : TRUE

\* this.solarFlares.forEach((flare) => flare.animate(deltaTime)): forEach reads the
\* length once and then visits index k only while k is still an index of the array.
\* st = [w, visited]: the world and the flares whose animate has run, in order.
RECURSIVE ForEachFlare(_, _, _, _)
ForEachFlare(st, k, len, deltaTime) ==
  IF k > len THEN st
  ELSE IF k <= Len(st.w.solarFlares)
       THEN LET f == st.w.solarFlares[k]
                after == [w |-> FlareAnimate(st.w, f, deltaTime),
                          visited |-> Append(st.visited, f)]
            IN  \* the callback has returned before forEach goes on: s is the state
                \* it leaves
                CHOOSE r \in {ForEachFlare(s, k + 1, len, deltaTime) : s \in {after}} :
                  TRUE
       ELSE ForEachFlare(st, k + 1, len, deltaTime)

\* the flare part of ThreeSunService.animate
AnimateFlares(w, deltaTime) ==
  ForEachFlare([w |-> w, visited |-> << >>], 1, Len(w.solarFlares), deltaTime)

\* the shaderOptions spawnFlare passes to a new flare: the colours of
\* this.options.shader, this.options being the object the step leaves it at (initSun
\* assigns it before it starts the loop), and the values of the eruption's flare
\* shader options
FlareShaderOptions(c) ==
  [ baseColor |-> objects[optionsRef'].shader.baseColor,
    hotColor |-> objects[optionsRef'].shader.hotColor,
    deepColor |-> objects[optionsRef'].shader.deepColor,
    emissiveStrength |-> c.shader.emissiveStrength,
    opacity |-> c.shader.opacity,
    distortionScale |-> c.shader.distortionScale,
    fadeStart |-> c.shader.fadeStart,
    fadeEnd |-> c.shader.fadeEnd,
    noiseScaleX |-> c.shader.noiseScaleX,
    noiseScaleY |-> c.shader.noiseScaleY,
    speed |-> c.shader.speed ]

\* spawnFlare without the check of solarEruptions.active
spawnFlare_IgnoresActive(w, isActive, c, options) ==
  LET f == Len(w.flares) + 1
      made == [w EXCEPT !.flares = Append(@, NewSolarFlare(options,
                                                           FlareShaderOptions(c)))]
  IN  spawnSolarFlare(made, f)

\* ThreeSunService.spawnFlare: a no-op while eruptions are switched off
spawnFlare(w, isActive, c, options) ==
  IF ~isActive THEN w
  ELSE LET f == Len(w.flares) + 1
           made == [w EXCEPT !.flares = Append(@, NewSolarFlare(options,
                                                                FlareShaderOptions(c)))]
       IN  spawnSolarFlare(made, f)

\* the loop of scheduleNext: spawnFlare once per element of optionsSeq
RECURSIVE SpawnAll(_, _, _, _)
SpawnAll(w, isActive, c, optionsSeq) ==
  IF optionsSeq = << >> THEN w
  ELSE SpawnAll(spawnFlare(w, isActive, c, Head(optionsSeq)), isActive, c,
                Tail(optionsSeq))

(***************************************************************************)
(* Fractions <<num, den>> with den > 0, in lowest terms.                   *)
(***************************************************************************)
Abs(x) == IF x < 0 THEN 0 - x ELSE x

RECURSIVE GCD(_, _)
GCD(a, b) == IF b = 0 THEN a ELSE GCD(b, a % b)

\* the fraction n / d, d # 0, in lowest terms
Q(n, d) ==
  LET g == GCD(Abs(n), Abs(d))
  IN  IF d < 0 THEN <<(0 - n) \div g, (0 - d) \div g>> ELSE <<n \div g, d \div g>>

QAdd(a, b) == Q(a[1] * b[2] + b[1] * a[2], a[2] * b[2])
QSub(a, b) == Q(a[1] * b[2] - b[1] * a[2], a[2] * b[2])
QMul(a, b) == Q(a[1] * b[1], a[2] * b[2])

(***************************************************************************)
(* SunShaderService: the surface shader and its uniforms.                  *)
(***************************************************************************)
\* SunShaderService.createLavaShader: the uniforms of the surface material
createLavaShader(shaderOptions) ==
  [ time |-> 0, resolution |-> <<1, 1>>,
    baseColor |-> shaderOptions.baseColor, hotColor |-> shaderOptions.hotColor,
    deepColor |-> shaderOptions.deepColor,
    distortionStrength |-> shaderOptions.distortionStrength,
    emissiveStrength |-> shaderOptions.emissiveStrength,
    fbmFrequency |-> shaderOptions.fbmFrequency,
    brightness |-> shaderOptions.brightness,
    contrastPower |-> shaderOptions.contrastPower,
    fbmScale |-> shaderOptions.fbmScale, fbmOffset |-> shaderOptions.fbmOffset,
    emissiveThresholdMin |-> shaderOptions.emissiveThresholdMin,
    emissiveThresholdMax |-> shaderOptions.emissiveThresholdMax,
    emissiveColor |-> shaderOptions.emissiveColor ]

\* SunShaderService.update with one more uniform created by the call
SunShaderUpdate_AddsUniform(u, shaderOptions, deltaTime) ==
  [k \in DOMAIN u \cup {"opacity"} |->
     IF k = "time" THEN u.time + deltaTime
     ELSE IF k \in DOMAIN shaderOptions THEN shaderOptions[k]
     ELSE IF k \in DOMAIN u THEN u[k] ELSE 100]

\* SunShaderService.update: u are the uniforms, shaderOptions is this.options
SunShaderUpdate(u, shaderOptions, deltaTime) ==
  [u EXCEPT !.time = @ + deltaTime,
            !.baseColor = shaderOptions.baseColor,
            !.hotColor = shaderOptions.hotColor,
            !.deepColor = shaderOptions.deepColor,
            !.emissiveColor = shaderOptions.emissiveColor,
            !.distortionStrength = shaderOptions.distortionStrength,
            !.emissiveStrength = shaderOptions.emissiveStrength,
            !.fbmFrequency = shaderOptions.fbmFrequency,
            !.brightness = shaderOptions.brightness,
            !.contrastPower = shaderOptions.contrastPower,
            !.fbmScale = shaderOptions.fbmScale,
            !.fbmOffset = shaderOptions.fbmOffset,
            !.emissiveThresholdMin = shaderOptions.emissiveThresholdMin,
            !.emissiveThresholdMax = shaderOptions.emissiveThresholdMax]

\* ThreeSunService.animateSunMesh with the step scaled by deltaTime
animateSunMesh_ScalesByDeltaTime(rotation, rotationOptions, deltaTime) ==
  [i \in 1..3 |-> rotation[i]
                    + rotationOptions.direction[i] * rotationOptions.speed * deltaTime]

\* ThreeSunService.animateSunMesh: the rotation it leaves on x, y and z
animateSunMesh(rotation, rotationOptions, deltaTime) ==
  [i \in 1..3 |-> rotation[i] + rotationOptions.direction[i] * rotationOptions.speed]

(***************************************************************************)
(* SunCoronaService and SunCorona.  Of the mesh's orientation the model     *)
(* holds the position the last lookAt turned it to (lookedAt) and           *)
(* rotation.z, as [q, turns] for q - turns * 2 * pi; lookAt leaves          *)
(* rotation.z at 0 for a viewer in the plane x = 0, where the model's       *)
(* viewer stays.  In classes/sun-corona.ts the field holds the angle of     *)
(* rotateZ, applied to the orientation lookAt leaves.  meshScale is the     *)
(* scalar of mesh.scale: 1 from construction, written by setOptions         *)
(* (part_008) and by the pulsing.                                           *)
(***************************************************************************)
\* a field that was never assigned, and one that holds v
Undefined == [defined |-> FALSE, value |-> <<0, 0, 0>>]
Some(v) == [defined |-> TRUE, value |-> v]

\* SunCoronaService.createCoronaMaterial: the uniforms of a corona material
createCoronaMaterial(o) ==
  [ time |-> 0, resolution |-> <<1, 1>>, glowColor |-> o.glowColor,
    flareStrength |-> o.flareStrength, baseGlowStrength |-> o.baseGlowStrength,
    radialFalloff |-> o.radialFalloff, flareFalloff |-> o.flareFalloff,
    edgeFadeStart |-> o.edgeFadeStart, edgeFadeEnd |-> o.edgeFadeEnd,
    baseGlowThreshold |-> o.baseGlowThreshold, animationSpeed |-> o.animationSpeed ]

\* new SunCorona(sun, options); optionsAt = <<object, index>> names the options object
NewSunCorona(optionsAt, o) ==
  [ options |-> optionsAt,
    visible |-> TRUE,
    uniforms |-> createCoronaMaterial(o),
    lookedAt |-> Undefined,
    meshRotationZ |-> [q |-> <<0, 1>>, turns |-> 0],
    meshScale |-> <<1, 1>>,
    rotationAccumulator |-> [q |-> 0, turns |-> 0],
    reactiveRotationAccumulator |-> << <<0, 1>>, <<0, 1>>, <<0, 1>> >>,
    lastSunRotation |-> Undefined,
    lastCameraPosition |-> Undefined ]

\* SunCoronaService.animate
SunCoronaServiceAnimate(u, o, deltaTime) ==
  [u EXCEPT !.time = @ + deltaTime * o.animationSpeed,
            !.glowColor = o.glowColor,
            !.flareStrength = o.flareStrength,
            !.baseGlowStrength = o.baseGlowStrength,
            !.radialFalloff = o.radialFalloff,
            !.flareFalloff = o.flareFalloff,
            !.edgeFadeStart = o.edgeFadeStart,
            !.edgeFadeEnd = o.edgeFadeEnd,
            !.baseGlowThreshold = o.baseGlowThreshold,
            !.animationSpeed = o.animationSpeed]

\* 10000 times the rotationAccumulator q - turns * 2 * pi, to the nearest unit
Angle4(acc) == acc.q * 10000 - acc.turns * TwoPi4

\* SpinAccumulate without the wrap
SpinAccumulate_NeverWraps(acc, baseSpinSpeed, wrapRotation) ==
  [acc EXCEPT !.q = @ + baseSpinSpeed]

\* rotationAccumulator += baseSpinSpeed, then the optional wrap by % (Math.PI * 2),
\* whose result has the sign of the dividend
SpinAccumulate(acc, baseSpinSpeed, wrapRotation) ==
  LET sum == [acc EXCEPT !.q = @ + baseSpinSpeed]
      a == Angle4(sum)
      k == IF a < 0 THEN 0 - ((0 - a) \div TwoPi4) ELSE a \div TwoPi4
  IN  IF wrapRotation /\ Abs(a) > TwoPi4 THEN [sum EXCEPT !.turns = @ + k] ELSE sum

\* this.lastCameraPosition.distanceTo(currentCameraPosition) > cameraMovementThreshold
MovedPastThreshold(from, to) ==
  (to[1] - from[1]) * (to[1] - from[1]) + (to[2] - from[2]) * (to[2] - from[2])
    + (to[3] - from[3]) * (to[3] - from[3]) > 4

\* SunRotationDelta that measures the first frame's delta from the rotation zero
SunRotationDelta_FromZero(c, rotation) ==
  [i \in 1..3 |-> rotation[i] - c.lastSunRotation.value[i]]

\* the rotation delta of a frame: zero on the first frame
SunRotationDelta(c, rotation) ==
  IF c.lastSunRotation.defined
  THEN [i \in 1..3 |-> rotation[i] - c.lastSunRotation.value[i]]
  ELSE <<0, 0, 0>>

\* Reorients that holds on the first frame only
Reorients_OnceOnly(c, cameraPosition) == ~c.lastCameraPosition.defined

\* the branch that re-orients the mesh is taken in this frame
Reorients(c, cameraPosition) ==
  \/ ~c.lastCameraPosition.defined
  \/ MovedPastThreshold(c.lastCameraPosition.value, cameraPosition)

\* options.rotationReactivity || 0.3 and options.rotationDecay || 0.98
ReactivityOf(o) == IF o.rotationReactivity[1] = 0 THEN <<3, 10>> ELSE o.rotationReactivity
DecayOf(o) == IF o.rotationDecay[1] = 0 THEN <<49, 50>> ELSE o.rotationDecay

\* offsetX + offsetY = Math.sin(x * 2) * 0.1 + Math.cos(y * 2) * 0.1 of the reactive
\* accumulator, at x = y = 0, where sin is 0 and cos is 1: the bodies of the
\* configurations that set enableMultiAxisReaction are at rest, so the accumulator
\* is zero whenever the offsets are computed
MultiAxisOffset(acc) ==
  CASE acc[1][1] = 0 /\ acc[2][1] = 0 -> <<1, 10>>

\* the spin and the reactive accumulation of one frame, from baseSpinSpeed to the
\* decay: mesh.rotation.z is assigned before the reactive accumulator is updated
SpinAndReact(c, o, deltaTime, delta, rotation) ==
  LET baseSpinSpeed == deltaTime * o.speed
      spun == IF o.syncWithSun
              THEN [c EXCEPT !.meshRotationZ =
                               [q |-> QAdd(<<rotation[2] * o.speed, 1>>,
                                           c.reactiveRotationAccumulator[3]),
                                turns |-> 0]]
              ELSE LET acc == SpinAccumulate(c.rotationAccumulator, baseSpinSpeed,
                                             o.wrapRotation)
                   IN  [c EXCEPT !.rotationAccumulator = acc,
                                 !.meshRotationZ =
                                   [q |-> QAdd(<<acc.q, 1>>,
                                               c.reactiveRotationAccumulator[3]),
                                    turns |-> acc.turns]]
      reacted == [spun EXCEPT !.reactiveRotationAccumulator =
                    [i \in 1..3 |->
                       QMul(QAdd(@[i], QMul(<<delta[i], 1>>, ReactivityOf(o))),
                            DecayOf(o))]]
  IN  IF o.enableMultiAxisReaction
      THEN [reacted EXCEPT !.meshRotationZ.q =
                             QAdd(@, MultiAxisOffset(reacted.reactiveRotationAccumulator))]
      ELSE reacted

\* Math.sin(this.rotationAccumulator * pulseFrequency) * pulseAmplitude, where it is
\* a fraction: 0 for an amplitude of 0, and 0 for an accumulator of 0
PulseAmount(acc, o) ==
  CASE o.pulseAmplitude = 0 -> <<0, 1>>
    [] acc.q = 0 /\ acc.turns = 0 -> <<0, 1>>

\* Math.sqrt(x * x + y * y + z * z) of the rotation delta, where it is whole
RotationIntensity(delta) ==
  CHOOSE r \in 0..(4 * MaxRotation) :
    r * r = delta[1] * delta[1] + delta[2] * delta[2] + delta[3] * delta[3]

\* options.reactiveScaling || 0.05
ReactiveScalingOf(o) == IF o.reactiveScaling[1] = 0 THEN <<1, 20>> ELSE o.reactiveScaling

\* Pulse that also steps the rotationAccumulator, whatever syncWithSun is
Pulse_StepsAccumulator(c, o, delta) ==
  IF o.enablePulsing
  THEN LET baseScale == IF o.scale = 0 THEN 1 ELSE o.scale
           reactiveScale == QMul(<<RotationIntensity(delta), 1>>, ReactiveScalingOf(o))
       IN  [c EXCEPT !.meshScale =
                       QAdd(QAdd(<<baseScale, 1>>, PulseAmount(c.rotationAccumulator, o)),
                            reactiveScale),
                     !.rotationAccumulator.q = @ + 1]
  ELSE c

\* the pulsing of the scale: baseScale + pulseAmount + reactiveScale
Pulse(c, o, delta) ==
  IF o.enablePulsing
  THEN LET baseScale == IF o.scale = 0 THEN 1 ELSE o.scale
           reactiveScale == QMul(<<RotationIntensity(delta), 1>>, ReactiveScalingOf(o))
       IN  [c EXCEPT !.meshScale =
                       QAdd(QAdd(<<baseScale, 1>>, PulseAmount(c.rotationAccumulator, o)),
                            reactiveScale)]
  ELSE c

\* SunCorona.animate of classes/sun-corona.ts: no test of options.active; lookAt,
\* then rotateZ(deltaTime * speed)
SunCoronaAnimateClasses(c, o, deltaTime, cameraPosition) ==
  [c EXCEPT !.uniforms = SunCoronaServiceAnimate(@, o, deltaTime),
            !.lookedAt = Some(cameraPosition),
            !.meshRotationZ = [q |-> <<deltaTime * o.speed, 1>>, turns |-> 0]]

\* the start of the re-orientation branch: mesh.lookAt(currentCameraPosition), then
\* the caching of that position
LookAtCamera(c, cameraPosition) ==
  [c EXCEPT !.lookedAt = Some(cameraPosition),
            !.lastCameraPosition = Some(cameraPosition)]

\* SunCorona.animate up to the caching of the body's rotation (part_007, part_008)
SunCoronaTrack(c, o, deltaTime, rotation) ==
  [c EXCEPT !.visible = TRUE,
            !.uniforms = SunCoronaServiceAnimate(@, o, deltaTime),
            !.lastSunRotation = Some(rotation)]

\* SunCorona.animate of part_007 that caches the body's rotation in an inactive
\* frame too
SunCoronaAnimate007_TracksWhileHidden(c, o, deltaTime, rotation, cameraPosition) ==
  IF ~o.active THEN [c EXCEPT !.visible = FALSE, !.lastSunRotation = Some(rotation)]
  ELSE LET delta == SunRotationDelta(c, rotation)
           tracked == SunCoronaTrack(c, o, deltaTime, rotation)
           faced == IF Reorients(c, cameraPosition)
                    THEN LookAtCamera(tracked, cameraPosition)
                    ELSE tracked
       IN  Pulse(SpinAndReact(faced, o, deltaTime, delta, rotation), o, delta)

\* SunCorona.animate of part_007: the spin, the reactive accumulation and the
\* pulsing run in every active frame, after the re-orientation branch
SunCoronaAnimate007(c, o, deltaTime, rotation, cameraPosition) ==
  IF ~o.active THEN [c EXCEPT !.visible = FALSE]
  ELSE LET delta == SunRotationDelta(c, rotation)
           tracked == SunCoronaTrack(c, o, deltaTime, rotation)
           faced == IF Reorients(c, cameraPosition)
                    THEN LookAtCamera(tracked, cameraPosition)
                    ELSE tracked
       IN  Pulse(SpinAndReact(faced, o, deltaTime, delta, rotation), o, delta)

\* SunCorona.animate of part_008: setOptions resets the scale; the spin, the
\* reactive accumulation and the pulsing are inside the re-orientation branch
SunCoronaAnimate008(c, o, deltaTime, rotation, cameraPosition) ==
  IF ~o.active THEN [c EXCEPT !.visible = FALSE]
  ELSE LET delta == SunRotationDelta(c, rotation)
           tracked == [SunCoronaTrack(c, o, deltaTime, rotation)
                         EXCEPT !.meshScale = <<o.scale, 1>>]
       IN  IF Reorients(c, cameraPosition)
           THEN Pulse(SpinAndReact(LookAtCamera(tracked, cameraPosition),
                                   o, deltaTime, delta, rotation), o, delta)
           ELSE tracked

\* SunCorona.animate of the revision rev; o is this.options, rotation is
\* this.sun.sunMesh.rotation and cameraPosition is this.sun.camera.position
SunCoronaAnimate(c, rev, o, deltaTime, rotation, cameraPosition) ==
  CASE rev = "classes/sun-corona.ts" ->
         SunCoronaAnimateClasses(c, o, deltaTime, cameraPosition)
    [] rev = "part_007" -> SunCoronaAnimate007(c, o, deltaTime, rotation, cameraPosition)
    [] rev = "part_008" -> SunCoronaAnimate008(c, o, deltaTime, rotation, cameraPosition)

\* the options object of corona c
OptionsOf(c) == objects[c.options[1]].coronas[c.options[2]]

(***************************************************************************)
(* ThreeInputComponent and ThreeInputColorComponent.  A value is undefined, *)
(* a boolean (the checkbox of the base class) or a reference to a Color     *)
(* object; input.colors holds the Color objects by reference, "free" where  *)
(* no object is referred to.  The page is opened without query parameters.  *)
(***************************************************************************)
UndefinedValue == [tag |-> "undefined", bool |-> FALSE, ref |-> 0]
BooleanValue(b) == [tag |-> "boolean", bool |-> b, ref |-> 0]
ColorRef(n) == [tag |-> "color", bool |-> FALSE, ref |-> n]

\* the colours the picker offers
HexStrings == {"#ffd000", "#ff0000", "#000000"}

\* the references a Color object can have
ColorRefs == 1..3

\* no input component has been constructed
NoInput ==
  [ kind |-> "none", value |-> UndefinedValue, initialValue |-> UndefinedValue,
    ran |-> FALSE, atInit |-> [tag |-> "undefined", bool |-> FALSE, hex |-> "none"],
    colors |-> [n \in ColorRefs |-> "free"], url |-> "none", pending |-> FALSE ]

\* what a value shows: the boolean, or the hex string of the Color referred to
Shown(value, colors) ==
  [ tag |-> value.tag, bool |-> value.bool,
    hex |-> IF value.tag = "color" THEN colors[value.ref] ELSE "none" ]

\* the Color objects still referred to by value or initialValue
Collect(in) ==
  [in EXCEPT !.colors = [n \in ColorRefs |->
                           IF \/ in.value = ColorRef(n)
                              \/ in.initialValue = ColorRef(n)
                           THEN @[n] ELSE "free"]]

\* the reference a newly constructed Color gets
NewRef(in) ==
  CHOOSE n \in ColorRefs :
    /\ in.value # ColorRef(n) /\ in.initialValue # ColorRef(n)
    /\ \A m \in 1..(n - 1) : in.value = ColorRef(m) \/ in.initialValue = ColorRef(m)

\* JSON.stringify(this.value) of the base class, `#${this.value.getHexString()}`
\* of the colour input
Stringify(in) ==
  CASE in.value.tag = "color" -> in.colors[in.value.ref]
    [] in.value.tag = "boolean" -> IF in.value.bool THEN "true" ELSE "false"
    [] OTHER -> "none"

\* storeValueFromURLQuery: router.navigate with the parameter of this input merged
\* in; the colour input returns at once without a value, and JSON.stringify of
\* undefined leaves the parameter out.  The route emits when the parameters changed.
storeValueFromURLQuery(in) ==
  IF in.value.tag = "undefined" /\ in.kind = "color" THEN in
  ELSE [in EXCEPT !.url = Stringify(in),
                  !.pending = @ \/ Stringify(in) # in.url]

\* loadValueFromURLQuery: JSON.parse of the parameter in the base class, a new
\* Color of it in the colour input
loadValueFromURLQuery(in) ==
  IF in.url = "none" THEN in
  ELSE IF in.kind = "color"
       THEN LET n == NewRef(in)
            IN  Collect([in EXCEPT !.value = ColorRef(n), !.colors[n] = in.url])
       ELSE [in EXCEPT !.value = BooleanValue(in.url = "true")]

\* ThreeInputComponent.initValue
initValue(in) ==
  LET kept == IF in.value.tag = "color"
              THEN LET n == NewRef(in)
                   IN  [in EXCEPT !.initialValue = ColorRef(n),
                                  !.colors[n] = in.colors[in.value.ref]]
              ELSE [in EXCEPT !.initialValue = in.value]
  IN  loadValueFromURLQuery(kept)

\* ThreeInputComponent.resetValue
resetValue(in) ==
  storeValueFromURLQuery(Collect([in EXCEPT !.value = in.initialValue]))

\* ThreeInputComponent.triggerChange: this.value = input.checked
triggerChange(in, checked) ==
  storeValueFromURLQuery([in EXCEPT !.value = BooleanValue(checked)])

\* ThreeInputColorComponent.triggerChange: this.value.set(input.value) on the
\* Color referred to, a new Color() when there is none
triggerChangeColor(in, hex) ==
  LET made == IF in.value.tag = "undefined"
              THEN LET n == NewRef(in)
                   IN  [in EXCEPT !.value = ColorRef(n), !.colors[n] = "#000000"]
              ELSE in
  IN  storeValueFromURLQuery([made EXCEPT !.colors[made.value.ref] = hex])

(***************************************************************************)
(* The operations.                                                         *)
(***************************************************************************)
\* the record kept of the most recent operation
Last(op) ==
  [ op |-> op,
    flare |-> 0,            \* the flare a direct flare call was made on
    was |-> FALSE,          \* that flare was already destroyed when the call began
    corona |-> 0,           \* the corona a direct corona call was made on
    visited |-> << >>,      \* the flares whose animate an orchestrator animate ran
    spawned |-> 0,          \* the flares a scheduler cycle constructed
    delay |-> 0 ]           \* the delay a scheduler cycle passed to setTimeout

\* the options generateRandomFlareOptions can return for configuration c
FlareOptionsOf(c) == {generateRandomFlareOptions(c, d) : d \in FlareDraws}

SetWorld(w) ==
  /\ solarFlares' = w.solarFlares
  /\ flares' = w.flares
  /\ scene' = w.scene

\* window.setTimeout(scheduleNext, delay): arms one timer and stores its id
SetTimeout(pending) ==
  /\ nextTimerId <= MaxTimers
  /\ timers' = pending \cup {nextTimerId}
  /\ solarEruptionIntervalId' = nextTimerId
  /\ nextTimerId' = nextTimerId + 1

\* the branch of scheduleNext taken while the document is hidden
HiddenCycle(op, pending) ==
  /\ SetTimeout(pending)
  /\ last' = [Last(op) EXCEPT !.delay = HiddenDelay]
  /\ UNCHANGED << solarFlares, flares, scene >>

\* VisibleCycle whose spawn loop runs while i <= count
VisibleCycle_LoopsOnceMore(op, pending) ==
  \E rc \in RandomDraws, ri \in RandomDraws :
    LET count == FloorRandomBetween(cfg.count[1], cfg.count[2], cfg.den, rc) + 1
        interval == RandomBetween(cfg.interval[1], cfg.interval[2], ri)
    IN  /\ active => Len(flares) + count <= MaxFlares
        /\ \E optionsSeq \in [1..count -> FlareOptionsOf(cfg)] :
             SetWorld(SpawnAll(World, active, cfg, optionsSeq))
        /\ SetTimeout(pending)
        /\ last' = [Last(op) EXCEPT !.delay = interval,
                                    !.spawned = Len(flares') - Len(flares)]

\* the branch of scheduleNext taken while the document is visible
VisibleCycle(op, pending) ==
  \E rc \in RandomDraws, ri \in RandomDraws :
    LET count == FloorRandomBetween(cfg.count[1], cfg.count[2], cfg.den, rc)
        interval == RandomBetween(cfg.interval[1], cfg.interval[2], ri)
    IN  /\ active => Len(flares) + count <= MaxFlares
        /\ \E optionsSeq \in [1..count -> FlareOptionsOf(cfg)] :
             SetWorld(SpawnAll(World, active, cfg, optionsSeq))
        /\ SetTimeout(pending)
        /\ last' = [Last(op) EXCEPT !.delay = interval,
                                    !.spawned = Len(flares') - Len(flares)]

\* scheduleNext without the check of document.visibilityState
scheduleNext_IgnoresVisibility(op, pending) == VisibleCycle(op, pending)

\* scheduleNext that arms no next timer while eruptions are switched off
scheduleNext_IdleWhileInactive(op, pending) ==
  IF active
  THEN \/ ~visible /\ HiddenCycle(op, pending)
       \/ visible /\ VisibleCycle(op, pending)
  ELSE /\ timers' = pending
       /\ last' = Last(op)
       /\ UNCHANGED << nextTimerId, solarEruptionIntervalId, solarFlares, flares, scene >>

\* scheduleNext, the closure of startSolarEruptionLoop: one scheduler cycle.
\* pending: the timers pending when it runs.
scheduleNext(op, pending) ==
  \/ ~visible /\ HiddenCycle(op, pending)
  \/ visible /\ VisibleCycle(op, pending)

\* ThreeSunService.initSun(scene, camera, options): options is the object ref and
\* cameraPosition the position of the camera passed
initSun(ref, cameraPosition) ==
  /\ optionsRef' = ref
  /\ camera' = [position |-> cameraPosition]
  /\ sunMesh' = [rotation |-> <<0, 0, 0>>]
  /\ coronas' = coronas \o [i \in 1..Len(objects[ref].coronas) |->
                              NewSunCorona(<<ref, i>>, objects[ref].coronas[i])]
  /\ initialised' = TRUE
  /\ UNCHANGED << objects, shader, revision, elapsed >>
  /\ scheduleNext("initSun", timers)

\* ThreeSunComponent.initScene: a new camera, sun.initSun(scene, camera), then the
\* render loop
InitScene ==
  /\ ~running
  /\ running' = TRUE
  /\ halted' = "none"
  /\ initSun(optionsRef, <<0, 0, 10000>>)
  /\ UNCHANGED << input, cfg, active, visible, everActive >>

\* a host calls sun.initSun(scene, camera, options) with an options object of its
\* choice and then calls sun.animate in its own render loop
InitSunWith ==
  \E ref \in DOMAIN objects :
    /\ ~running
    /\ running' = TRUE
    /\ halted' = "none"
    /\ initSun(ref, camera.position)
    /\ UNCHANGED << input, cfg, active, visible, everActive >>

\* ThreeSunService.startSolarEruptionLoop(this.options.solarEruptions), called by a host
StartSolarEruptionLoop ==
  /\ initialised
  /\ halted' = "none"
  /\ UNCHANGED sunVars
  /\ scheduleNext("start", timers)
  /\ UNCHANGED << input, cfg, active, visible, initialised, running, everActive >>

\* a pending timer fires: the browser drops it and runs scheduleNext
TimerFire ==
  \E t \in timers :
    /\ UNCHANGED sunVars
    /\ scheduleNext("fire", timers \ {t})
    /\ UNCHANGED << input, cfg, active, visible, initialised, running, everActive, halted >>

\* ThreeSunService.stopSolarEruptionLoop
StopSolarEruptionLoop ==
  /\ IF solarEruptionIntervalId # 0
     THEN /\ timers' = timers \ {solarEruptionIntervalId}
          /\ solarEruptionIntervalId' = 0
     ELSE UNCHANGED << timers, solarEruptionIntervalId >>
  /\ halted' = "stop"
  /\ last' = Last("stop")
  /\ UNCHANGED << input, cfg, active, visible, initialised, running, nextTimerId,
                  solarFlares, flares, scene, everActive >>
  /\ UNCHANGED sunVars

\* ThreeSunComponent.ngOnDestroy: sun.destroy(), which does nothing, and
\* cancelAnimationFrame, which ends the render loop
NgOnDestroy ==
  /\ running
  /\ running' = FALSE
  /\ halted' = "destroy"
  /\ last' = Last("destroy")
  /\ UNCHANGED << input, cfg, active, visible, initialised, timers, nextTimerId,
                  solarEruptionIntervalId, solarFlares, flares, scene, everActive >>
  /\ UNCHANGED sunVars

\* the clock of the surface as the model holds it: it is followed up to MaxTime
Clock(t) == IF t > MaxTime THEN MaxTime ELSE t

\* the body of ThreeSunService.animate(deltaTime): the surface rotation, the surface
\* shader, the coronas, then the flares
Frame(deltaTime) ==
  /\ LET rotation == animateSunMesh(sunMesh.rotation, objects[optionsRef].rotation,
                                    deltaTime)
     IN  /\ \A i \in 1..3 : Abs(rotation[i]) <= MaxRotation
         /\ sunMesh' = [sunMesh EXCEPT !.rotation = rotation]
         /\ shader' = [shader EXCEPT !.uniforms =
                         [SunShaderUpdate(@, objects[shader.options].shader, deltaTime)
                            EXCEPT !.time = Clock(@)]]
         /\ coronas' = [i \in 1..Len(coronas) |->
                          SunCoronaAnimate(coronas[i], revision, OptionsOf(coronas[i]),
                                           deltaTime, rotation, camera.position)]
  /\ \E st \in {AnimateFlares(World, deltaTime)} :
       /\ SetWorld(st.w)
       /\ last' = [Last("animate") EXCEPT !.visited = st.visited]
  /\ UNCHANGED << input, cfg, active, visible, initialised, running, timers, nextTimerId,
                  solarEruptionIntervalId, everActive, halted >>
  /\ UNCHANGED << objects, optionsRef, camera, revision >>

\* ThreeSunService.animate(deltaTime), called by the render loop, within the first
\* MaxTime ticks
Animate ==
  \E deltaTime \in DeltaTimes :
    /\ running
    /\ elapsed + deltaTime <= MaxTime
    /\ Frame(deltaTime)
    /\ elapsed' = elapsed + deltaTime

\* ThreeSunComponent.animate, the render loop: requestAnimationFrame runs it again and
\* again, each time later than the frame before, and it calls sun.animate(deltaTime)
RenderLoop ==
  \E deltaTime \in DeltaTimes \ {0} :
    /\ running
    /\ Frame(deltaTime)
    /\ elapsed' = Clock(elapsed + deltaTime)

\* flare.animate(deltaTime) called on any flare constructed so far
FlareAnimateCall ==
  \E f \in DOMAIN flares, deltaTime \in DeltaTimes :
    /\ SetWorld(FlareAnimate(World, f, deltaTime))
    /\ last' = [Last("flareAnimate") EXCEPT !.flare = f, !.was = flares[f].destroyed]
    /\ UNCHANGED << input, cfg, active, visible, initialised, running, timers, nextTimerId,
                    solarEruptionIntervalId, everActive, halted >>
    /\ UNCHANGED sunVars

\* flare.spawnSolarFlare() called on any flare constructed so far, while the
\* orchestrator's list holds fewer than MaxListed entries
FlareSpawnCall ==
  \E f \in DOMAIN flares :
    /\ Len(solarFlares) < MaxListed
    /\ SetWorld(spawnSolarFlare(World, f))
    /\ last' = [Last("flareSpawn") EXCEPT !.flare = f, !.was = flares[f].destroyed]
    /\ UNCHANGED << input, cfg, active, visible, initialised, running, timers, nextTimerId,
                    solarEruptionIntervalId, everActive, halted >>
    /\ UNCHANGED sunVars

\* flare.destroy() called on any flare constructed so far
FlareDestroyCall ==
  \E f \in DOMAIN flares :
    /\ SetWorld(FlareDestroy(World, f))
    /\ last' = [Last("flareDestroy") EXCEPT !.flare = f, !.was = flares[f].destroyed]
    /\ UNCHANGED << input, cfg, active, visible, initialised, running, timers, nextTimerId,
                    solarEruptionIntervalId, everActive, halted >>
    /\ UNCHANGED sunVars

\* corona.animate(deltaTime) called on any corona constructed so far, while its
\* material's time stays within MaxTime
CoronaAnimateCall ==
  \E i \in 1..Len(coronas), deltaTime \in DeltaTimes :
    /\ coronas[i].uniforms.time + deltaTime * OptionsOf(coronas[i]).animationSpeed
         <= MaxTime
    /\ coronas' = [coronas EXCEPT ![i] =
                     SunCoronaAnimate(@, revision, OptionsOf(@), deltaTime,
                                      sunMesh.rotation, camera.position)]
    /\ last' = [Last("coronaAnimate") EXCEPT !.corona = i]
    /\ UNCHANGED << input, cfg, active, visible, initialised, running, timers, nextTimerId,
                    solarEruptionIntervalId, solarFlares, flares, scene, everActive,
                    halted >>
    /\ UNCHANGED << objects, optionsRef, sunMesh, shader, camera, revision, elapsed >>

\* sunShader.update(deltaTime) called on the surface shader, while its time stays
\* within MaxTime
ShaderUpdateCall ==
  \E deltaTime \in DeltaTimes :
    /\ shader.uniforms.time + deltaTime <= MaxTime
    /\ shader' = [shader EXCEPT !.uniforms =
                    SunShaderUpdate(@, objects[shader.options].shader, deltaTime)]
    /\ last' = Last("shaderUpdate")
    /\ UNCHANGED << input, cfg, active, visible, initialised, running, timers, nextTimerId,
                    solarEruptionIntervalId, solarFlares, flares, scene, everActive,
                    halted >>
    /\ UNCHANGED << objects, optionsRef, sunMesh, coronas, camera, revision, elapsed >>

\* the editor writes options.solarEruptions.active
SetActive ==
  /\ active' = ~active
  /\ everActive' = (everActive \/ active')
  /\ last' = Last("setActive")
  /\ UNCHANGED << input, cfg, visible, initialised, running, timers, nextTimerId,
                  solarEruptionIntervalId, solarFlares, flares, scene, halted >>
  /\ UNCHANGED sunVars

\* the browser changes document.visibilityState
SetVisible ==
  /\ visible' = ~visible
  /\ last' = Last("setVisible")
  /\ UNCHANGED << input, cfg, active, initialised, running, timers, nextTimerId,
                  solarEruptionIntervalId, solarFlares, flares, scene, everActive,
                  halted >>
  /\ UNCHANGED sunVars

\* the editor writes options.coronas[i].active
SetCoronaActive ==
  \E i \in 1..Len(objects[optionsRef].coronas) :
    /\ initialised
    /\ objects' = [objects EXCEPT ![optionsRef].coronas[i].active = ~@]
    /\ last' = Last("setCoronaActive")
    /\ UNCHANGED << input, cfg, active, visible, initialised, running, timers, nextTimerId,
                    solarEruptionIntervalId, solarFlares, flares, scene, everActive,
                    halted >>
    /\ UNCHANGED << optionsRef, sunMesh, shader, coronas, camera, revision, elapsed >>

\* the orbit controls move the camera
MoveCamera ==
  \E position \in CameraPositions \ {camera.position} :
    /\ initialised
    /\ camera' = [camera EXCEPT !.position = position]
    /\ last' = Last("moveCamera")
    /\ UNCHANGED << input, cfg, active, visible, initialised, running, timers, nextTimerId,
                    solarEruptionIntervalId, solarFlares, flares, scene, everActive,
                    halted >>
    /\ UNCHANGED << objects, optionsRef, sunMesh, shader, coronas, revision, elapsed >>

\* what the editor's actions leave alone
NotTheInput ==
  /\ UNCHANGED << cfg, active, visible, initialised, running, timers, nextTimerId,
                  solarEruptionIntervalId, solarFlares, flares, scene, everActive,
                  halted >>
  /\ UNCHANGED sunVars

\* the editor's template constructs an input and binds its value
NewInput ==
  /\ input.kind = "none"
  /\ \/ \E value \in {UndefinedValue, BooleanValue(FALSE), BooleanValue(TRUE)} :
          input' = [NoInput EXCEPT !.kind = "checkbox", !.value = value]
     \/ input' = [NoInput EXCEPT !.kind = "color"]
     \/ \E hex \in HexStrings :
          input' = [NoInput EXCEPT !.kind = "color", !.value = ColorRef(1),
                                   !.colors[1] = hex]
  /\ last' = Last("newInput")
  /\ NotTheInput

\* the timeout of ngOnInit fires: initValue
InitValue ==
  /\ input.kind # "none" /\ ~input.ran
  /\ input' = [initValue(input) EXCEPT !.ran = TRUE,
                                       !.atInit = Shown(input.value, input.colors)]
  /\ last' = Last("initValue")
  /\ NotTheInput

\* the user changes the input: triggerChange(event)
TriggerChange ==
  /\ input.ran
  /\ \/ /\ input.kind = "checkbox"
        /\ \E checked \in BOOLEAN : input' = triggerChange(input, checked)
     \/ /\ input.kind = "color"
        /\ \E hex \in HexStrings : input' = triggerChangeColor(input, hex)
  /\ last' = Last("triggerChange")
  /\ NotTheInput

\* the user presses the reset button: resetValue()
ResetValue ==
  /\ input.ran
  /\ input' = resetValue(input)
  /\ last' = Last("resetValue")
  /\ NotTheInput

\* the navigation of storeValueFromURLQuery ends: route.queryParams emits and the
\* subscription of initValue runs loadValueFromURLQuery
QueryParamsEmit ==
  /\ input.pending
  /\ input' = [loadValueFromURLQuery(input) EXCEPT !.pending = FALSE]
  /\ last' = Last("queryParams")
  /\ NotTheInput

\* the surface after construction: shader is built from config.options.shader, and
\* this.options is config.options
SunInitWith(config, override, rev) ==
  /\ objects = [config |-> config, override |-> override]
  /\ optionsRef = "config"
  /\ sunMesh = [rotation |-> <<0, 0, 0>>]
  /\ shader = [options |-> "config", uniforms |-> createLavaShader(config.shader)]
  /\ coronas = << >>
  /\ camera = [position |-> <<0, 0, 10000>>]
  /\ revision = rev
  /\ elapsed = 0

\* the state after construction, for a configuration of the set configs
InitWith(configs) ==
  /\ cfg \in {c \in configs : ConfigExact(c)}
  /\ active \in BOOLEAN
  /\ visible \in BOOLEAN
  /\ initialised = FALSE
  /\ running = FALSE
  /\ timers = {}
  /\ nextTimerId = 1
  /\ solarEruptionIntervalId = 0
  /\ solarFlares = << >>
  /\ flares = << >>
  /\ scene = {}
  /\ last = Last("new")
  /\ everActive = active
  /\ halted = "none"
  /\ input = NoInput

(***************************************************************************)
(* Spec: the orchestrator and its scheduler as the host and the browser     *)
(* drive them.                                                              *)
(***************************************************************************)
Next ==
  \/ InitScene
  \/ StartSolarEruptionLoop
  \/ TimerFire
  \/ StopSolarEruptionLoop
  \/ NgOnDestroy
  \/ Animate
  \/ SetActive
  \/ SetVisible

Init == InitWith(SchedulerConfigs) /\ SunInitWith(QuietSun, QuietSun, "part_008")

Spec == Init /\ [][Next]_vars

(***************************************************************************)
(* FlareSpec: the flares of a visible sun with eruptions switched on, each  *)
(* driven by the orchestrator's frames and by direct calls of its public    *)
(* animate and destroy.                                                     *)
(***************************************************************************)
FlareInit ==
  /\ InitWith(FlareConfigs) /\ active /\ visible
  /\ SunInitWith(QuietSun, QuietSun, "part_008")

FlareNext ==
  \/ InitScene
  \/ TimerFire
  \/ Animate
  \/ FlareAnimateCall
  \/ FlareDestroyCall

FlareSpec == FlareInit /\ [][FlareNext]_vars

(***************************************************************************)
(* SunSpec: the surface shader, the body's rotation, the coronas and the    *)
(* flares of the first eruption, for each SunCorona revision.               *)
(***************************************************************************)
SunInit ==
  /\ InitWith({CHOOSE c \in SchedulerConfigs : c.count = <<1, 5>>})
  /\ visible
  /\ \E config \in SunConfigs, override \in SunConfigs, rev \in CoronaRevisions :
       config # override /\ SunInitWith(config, override, rev)

SunNext ==
  \/ InitSunWith
  \/ Animate
  \/ SetCoronaActive
  \/ MoveCamera

SunSpec == SunInit /\ [][SunNext]_vars

(***************************************************************************)
(* SpinSpec: the coronas that spin on their own, about a body at rest.      *)
(***************************************************************************)
SpinInit ==
  /\ InitWith({CHOOSE c \in SchedulerConfigs : c.count = <<1, 5>>})
  /\ ~active /\ visible
  /\ \E config \in SpinConfigs, override \in SpinConfigs, rev \in CoronaRevisions :
       config # override /\ SunInitWith(config, override, rev)

SpinNext ==
  \/ InitSunWith
  \/ Animate
  \/ SetCoronaActive
  \/ MoveCamera

SpinSpec == SpinInit /\ [][SpinNext]_vars

(***************************************************************************)
(* InputSpec: one input of the editor, a checkbox or a colour input.        *)
(***************************************************************************)
InputInit ==
  /\ InitWith({PartsEruptions})
  /\ ~active /\ visible
  /\ SunInitWith(QuietSun, QuietSun, "part_008")

InputNext ==
  \/ NewInput
  \/ InitValue
  \/ TriggerChange
  \/ ResetValue
  \/ QueryParamsEmit

InputSpec == InputInit /\ [][InputNext]_vars

(***************************************************************************)
(* LifecycleSpec: the flares of the first eruption under the orchestrator's *)
(* frames and direct calls of the three public operations of a flare.       *)
(***************************************************************************)
LifecycleInit ==
  /\ InitWith({PartsEruptions})
  /\ active /\ visible
  /\ SunInitWith(QuietSun, QuietSun, "part_008")

LifecycleNext ==
  \/ InitScene
  \/ Animate
  \/ FlareSpawnCall
  \/ FlareAnimateCall
  \/ FlareDestroyCall

LifecycleSpec == LifecycleInit /\ [][LifecycleNext]_vars

(***************************************************************************)
(* PartsSpec: the surface shader, two coronas and the flares of the first   *)
(* eruption, each driven by direct calls of its own animate or update.      *)
(***************************************************************************)
PartsInit ==
  /\ InitWith({PartsEruptions})
  /\ active /\ visible
  /\ \E config \in PartsConfigs, override \in PartsConfigs, rev \in CoronaRevisions :
       config # override /\ SunInitWith(config, override, rev)

PartsNext ==
  \/ InitSunWith
  \/ FlareAnimateCall
  \/ CoronaAnimateCall
  \/ ShaderUpdateCall

PartsSpec == PartsInit /\ [][PartsNext]_vars

(***************************************************************************)
(* ReactSpec: pulsing coronas about a turning body, with rotationReactivity *)
(* and reactiveScaling configured as 0.                                     *)
(***************************************************************************)
ReactInit ==
  /\ InitWith({CHOOSE c \in SchedulerConfigs : c.count = <<1, 5>>})
  /\ ~active /\ visible
  /\ \E config \in ReactConfigs, override \in ReactConfigs, rev \in CoronaRevisions :
       config # override /\ SunInitWith(config, override, rev)

ReactNext ==
  \/ InitSunWith
  \/ Animate
  \/ SetCoronaActive
  \/ MoveCamera

ReactSpec == ReactInit /\ [][ReactNext]_vars

(***************************************************************************)
(* RangeSpec: the scheduler's cycles under configurations whose ranges are  *)
(* points or are invalid.                                                   *)
(***************************************************************************)
RangeInit ==
  /\ InitWith(RangeConfigs)
  /\ SunInitWith(QuietSun, QuietSun, "part_008")

RangeNext ==
  \/ InitScene
  \/ TimerFire
  \/ SetActive
  \/ SetVisible

RangeSpec == RangeInit /\ [][RangeNext]_vars

(***************************************************************************)
(* LiveSpec: the flares of a sun whose render loop keeps running.  The      *)
(* browser runs the loop's frame again and again for as long as the loop is *)
(* on, hence the weak fairness of RenderLoop; timers and host calls come    *)
(* when they come.                                                          *)
(***************************************************************************)
LiveConfigs ==
  { \* one or two flares per eruption, lifetimes 2 or 4
    [ den |-> 1, count |-> <<1, 3>>, interval |-> <<500, 5000>>,
      size |-> <<10, 10>>, lifetime |-> <<2, 6>>, plasmaTrails |-> <<4, 4>>,
      flareCount |-> <<1, 1>>, turbulance |-> <<1, 1>>,
      shader |-> FlareShader(4, 1) ],
    \* no flare or one, with or without panels, a lifetime of zero or below
    [ den |-> 1, count |-> <<0, 2>>, interval |-> <<1000, 1000>>,
      size |-> <<2, 2>>, lifetime |-> <<0, -2>>, plasmaTrails |-> <<1, 1>>,
      flareCount |-> <<0, 2>>, turbulance |-> <<0, 0>>,
      shader |-> FlareShader(2, 0) ] }

LiveInit ==
  /\ InitWith(LiveConfigs) /\ visible
  /\ SunInitWith(QuietSun, QuietSun, "part_008")

LiveNext ==
  \/ InitScene
  \/ StartSolarEruptionLoop
  \/ TimerFire
  \/ StopSolarEruptionLoop
  \/ RenderLoop

LiveSpec == LiveInit /\ [][LiveNext]_vars /\ WF_vars(RenderLoop)

(***************************************************************************)
(* Properties.                                                             *)
(***************************************************************************)
\* how often x occurs in seq
Occurrences(seq, x) == Cardinality({i \in 1..Len(seq) : seq[i] = x})

\* C1: in every call of the orchestrator's animate, each flare that is in
\* solarFlares when the call starts has its own animate executed exactly once
\* during that call, also when flares expire and remove themselves from the list
\* during the call; no flare is skipped.
C1_EveryFlareAnimatedOnce ==
  [][ last'.op = "animate" =>
        \A i \in 1..Len(solarFlares) :
          Occurrences(last'.visited, solarFlares[i]) = 1 ]_vars

\* the step just taken ran SolarFlare.animate on flare f
AnimateRanOn(f) ==
  \/ last'.op = "flareAnimate" /\ last'.flare = f
  \/ last'.op = "animate" /\ f \in Range(last'.visited)

\* C2: for a flare with lifetime L driven only by animate calls, destroyed is
\* false after every animate call that leaves age < L and becomes true during the
\* first animate call that leaves age >= L.
C2_DestroyedExactlyAtLifetime ==
  [][ \A f \in DOMAIN flares :
        (~flares[f].destroyed /\ AnimateRanOn(f)) =>
          (flares'[f].destroyed <=> flares'[f].age >= flares'[f].options.lifetime) ]_vars

\* C2 witness: one orchestrator frame has ended a flare at age >= lifetime > 0 and
\* left another, aged but younger than its lifetime, alive
C2_Witness ==
  /\ last.op = "animate"
  /\ \E f \in Range(last.visited), g \in Range(last.visited) :
       /\ flares[f].destroyed
       /\ flares[f].options.lifetime > 0
       /\ flares[f].age >= flares[f].options.lifetime
       /\ ~flares[g].destroyed
       /\ 0 < flares[g].age
       /\ flares[g].age < flares[g].options.lifetime

\* C3: if solarEruptions.active is false from initialization on, the active flare
\* list is empty in every reachable state (and no flare was ever constructed).
C3_NoFlareWhileNeverActive ==
  ~everActive => (solarFlares = << >> /\ flares = << >> /\ scene = {})

\* C3 witness: a timer has fired on a visible document whose count range starts
\* at 1 or more, with eruptions switched off since initialization
C3_Witness ==
  /\ ~everActive
  /\ last.op = "fire"
  /\ visible
  /\ cfg.count[1] >= 1

\* the step just taken ran one scheduler cycle
CycleRan == last'.op \in {"initSun", "start", "fire"}

\* C4: a scheduler cycle that runs while the document is not visible spawns no
\* flare and arms the next check after a fixed 1000 ms; a flare is constructed only
\* in a step taken while the document is visible.
C4_HiddenCycleSpawnsNothing ==
  [][ /\ (CycleRan /\ ~visible) =>
           /\ flares' = flares /\ solarFlares' = solarFlares /\ scene' = scene
           /\ last'.delay = 1000
           /\ timers' \ timers = {solarEruptionIntervalId'}
           /\ solarEruptionIntervalId' \notin timers
      /\ Len(flares') > Len(flares) => visible ]_vars

\* C4 witness: a timer has fired on a hidden document while eruptions are switched
\* on and the count range starts at 1 or more
C4_Witness ==
  /\ last.op = "fire"
  /\ ~visible
  /\ active
  /\ cfg.count[1] >= 1
  /\ last.delay = HiddenDelay

\* C5: at any moment at most one eruption timer is pending for an orchestrator.
C5_AtMostOneTimerPending == Cardinality(timers) <= 1

\* C6: after stopSolarEruptionLoop returns, no eruption timer is pending and the
\* scheduler runs no further cycle until the loop is started again.
C6_StopIsFinal == halted = "stop" => (timers = {} /\ last.op # "fire")

\* C7: after the orchestrator is torn down (ngOnDestroy calling destroy()), no
\* eruption timer remains pending and the scheduler runs no further cycle.
C7_TeardownStopsScheduler == halted = "destroy" => (timers = {} /\ last.op # "fire")

\* the counts Math.floor(randomBetween(min.count, max.count)) can yield
CountsOf(c) == {FloorRandomBetween(c.count[1], c.count[2], c.den, r) : r \in RandomDraws}

\* C8: while solarEruptions.active is false the scheduler keeps cycling: every
\* firing consumes the fired timer and leaves exactly one next timer pending (the
\* only pending one when the fired timer was), and spawns nothing; a firing that
\* finds active true and the document visible spawns the count of flares it draws,
\* without startSolarEruptionLoop being called again.
C8_LoopRunsWhileInactive ==
  [][ last'.op = "fire" =>
        /\ Cardinality(timers \ timers') = 1
        /\ timers' \ timers = {solarEruptionIntervalId'}
        /\ solarEruptionIntervalId' \notin timers
        /\ Cardinality(timers) = 1 => timers' = {solarEruptionIntervalId'}
        /\ ~active => (flares' = flares /\ solarFlares' = solarFlares /\ scene' = scene)
        /\ (active /\ visible) =>
             /\ Len(flares') - Len(flares) \in CountsOf(cfg)
             /\ solarFlares' = solarFlares \o [i \in 1..(Len(flares') - Len(flares))
                                                 |-> Len(flares) + i] ]_vars

\* C8 witness: the one timer armed by initSun, whose cycle spawned nothing, has
\* fired and that firing spawned the first flares; no other cycle has run
C8_Witness ==
  /\ last.op = "fire"
  /\ last.spawned > 0
  /\ Len(flares) = last.spawned
  /\ nextTimerId = 3

\* C9: destroyed == true is absorbing: a destroyed flare stays destroyed, and every
\* later animate call on it leaves its age, its mesh lists, its uniforms, the active
\* list and the scene unchanged.
C9_DestroyedIsAbsorbing ==
  [][ \A f \in DOMAIN flares :
        flares[f].destroyed =>
          /\ flares'[f].destroyed
          /\ (last'.op = "flareAnimate" /\ last'.flare = f) =>
               (flares' = flares /\ solarFlares' = solarFlares /\ scene' = scene) ]_vars

\* C9 witness: animate has been called on a flare that was already destroyed
C9_Witness ==
  /\ last.op = "flareAnimate"
  /\ last.was
  /\ flares[last.flare].destroyed
  /\ flares[last.flare].options.flareCount > 0

\* the meshes flare f holds in its two mesh lists
MeshesOf(f) == Range(flares[f].fallingBackMeshes) \cup Range(flares[f].flyAwayMeshes)

\* a live flare holds flareCount meshes per layer, all in the scene, and is in the
\* active list once; a destroyed flare holds none, has none in the scene and is not
\* in the list
MeshOwnership ==
  /\ \A f \in DOMAIN flares :
       IF ~flares[f].destroyed
       THEN /\ Len(flares[f].fallingBackMeshes) = flares[f].options.flareCount
            /\ Len(flares[f].flyAwayMeshes) = flares[f].options.flareCount
            /\ Cardinality(MeshesOf(f)) = 2 * flares[f].options.flareCount
            /\ MeshesOf(f) \subseteq scene
            /\ Occurrences(solarFlares, f) = 1
       ELSE /\ MeshesOf(f) = {}
            /\ Occurrences(solarFlares, f) = 0
  /\ \A m \in scene : m[1] \in DOMAIN flares /\ ~flares[m[1]].destroyed
  /\ \A f \in DOMAIN flares, g \in DOMAIN flares :
       f # g => MeshesOf(f) \cap MeshesOf(g) = {}

\* C10: from spawn until destruction a flare owns exactly flareCount falling-back and
\* flareCount fly-away meshes, all in the scene; destruction removes all of them from
\* the scene and the flare from the active list; a second destroy() changes nothing;
\* the scene never contains a mesh of a destroyed flare.
C10_MeshOwnership ==
  /\ []MeshOwnership
  /\ [][ (last'.op = "flareDestroy" /\ flares[last'.flare].destroyed) =>
           (flares' = flares /\ solarFlares' = solarFlares /\ scene' = scene) ]_vars

\* C10 witness: destroy() has been called a second time on a flare that had panels,
\* while another flare is alive with its panels in the scene
C10_Witness ==
  /\ last.op = "flareDestroy"
  /\ last.was
  /\ flares[last.flare].options.flareCount > 0
  /\ \E g \in DOMAIN flares : ~flares[g].destroyed /\ flares[g].options.flareCount > 0

\* the step just taken ran ThreeSunService.animate
FrameRan == last'.op = "animate"

\* delta * reactivity / (1 - decayRate) for one axis, decayRate < 1
ClaimedFixedPoint(delta, reactivity, decayRate) ==
  Q(delta * reactivity[1] * decayRate[2],
    reactivity[2] * (decayRate[2] - decayRate[1]))

\* C11: for a per-frame body-rotation delta and a decay rate below 1, every frame
\* of an active corona moves the reactive accumulator, per axis, towards
\* delta*reactivity/(1-decayRate): its distance to that value shrinks by the factor
\* decayRate, so that value is the fixed point the accumulator converges to.
C11_ReactiveFixedPoint ==
  [][ FrameRan =>
        \A i \in 1..Len(coronas) :
          LET o == OptionsOf(coronas[i])
              delta == SunRotationDelta(coronas[i], sunMesh'.rotation)
          IN  (o.active /\ DecayOf(o)[1] < DecayOf(o)[2]) =>
                \A axis \in 1..3 :
                  LET limit == ClaimedFixedPoint(delta[axis], ReactivityOf(o), DecayOf(o))
                  IN  QSub(coronas'[i].reactiveRotationAccumulator[axis], limit)
                        = QMul(DecayOf(o),
                               QSub(coronas[i].reactiveRotationAccumulator[axis], limit))
    ]_vars

\* every flare option of configuration c has min = max
PointRanges(c) ==
  /\ c.size[1] = c.size[2] /\ c.lifetime[1] = c.lifetime[2]
  /\ c.plasmaTrails[1] = c.plasmaTrails[2] /\ c.flareCount[1] = c.flareCount[2]
  /\ c.turbulance[1] = c.turbulance[2]

\* C12 as stated: generateRandomFlareOptions with min = max for every field returns,
\* for every field and every draw, exactly the configured value (for plasmaTrails and
\* flareCount the configured value is the numerator over den).
C12_PointRangeReturnsValue ==
  PointRanges(cfg) =>
    \A f \in DOMAIN flares :
      /\ flares[f].options.size = cfg.size[1]
      /\ flares[f].options.lifetime = cfg.lifetime[1]
      /\ flares[f].options.plasmaTrails * cfg.den = cfg.plasmaTrails[1]
      /\ flares[f].options.flareCount * cfg.den = cfg.flareCount[1]
      /\ flares[f].options.turbulance = cfg.turbulance[1]

\* C12 amended: generateRandomFlareOptions with min = max for every field returns,
\* for every draw, exactly the configured size, lifetime and turbulance, and for
\* plasmaTrails and flareCount the configured value rounded down to a whole number.
C12_PointRangeReturnsFlooredValue ==
  PointRanges(cfg) =>
    \A f \in DOMAIN flares :
      /\ flares[f].options.size = cfg.size[1]
      /\ flares[f].options.lifetime = cfg.lifetime[1]
      /\ flares[f].options.plasmaTrails = cfg.plasmaTrails[1] \div cfg.den
      /\ flares[f].options.flareCount = cfg.flareCount[1] \div cfg.den
      /\ flares[f].options.turbulance = cfg.turbulance[1]

\* C12 witness: a flare was generated from point ranges whose plasmaTrails (5/2) and
\* flareCount (3/2) are not whole, and holds 2 and 1
C12_Witness ==
  /\ PointRanges(cfg)
  /\ cfg.plasmaTrails[1] % cfg.den # 0
  /\ cfg.flareCount[1] % cfg.den # 0
  /\ \E f \in DOMAIN flares :
       flares[f].options.plasmaTrails = 2 /\ flares[f].options.flareCount = 1

\* the range pair = <<min, max>> is invalid
Invalid(pair) == pair[2] < pair[1]

\* v is what an invalid range may yield when it is clamped or taken as a point
Degenerate(pair, v) == Invalid(pair) => v \in {pair[1], pair[2]}

\* C13: an invalid range (max < min) of the eruption configuration is resolved by
\* clamping or as a zero-width range: the count and the delay a visible cycle draws
\* and every option of a flare are then an endpoint of their pair, never a value
\* between max and min.
C13_InvalidRangeIsDegenerate ==
  /\ (last.op \in {"initSun", "start", "fire"} /\ visible) =>
       /\ Degenerate(cfg.interval, last.delay)
       /\ active => Degenerate(cfg.count, last.spawned * cfg.den)
  /\ \A f \in DOMAIN flares :
       /\ Degenerate(cfg.size, flares[f].options.size)
       /\ Degenerate(cfg.lifetime, flares[f].options.lifetime)
       /\ Degenerate(cfg.plasmaTrails, flares[f].options.plasmaTrails * cfg.den)
       /\ Degenerate(cfg.flareCount, flares[f].options.flareCount * cfg.den)
       /\ Degenerate(cfg.turbulance, flares[f].options.turbulance)

\* C14: the key set of every Parameter Bank (the uniforms of the surface shader, of
\* each corona and of both materials of each flare) is in every reachable state the
\* key set it had at construction: no update or animate call adds or removes a key.
C14_KeySetsConstant ==
  /\ DOMAIN shader.uniforms = DOMAIN createLavaShader(DefaultShaderOptions)
  /\ \A i \in 1..Len(coronas) :
       DOMAIN coronas[i].uniforms = DOMAIN createCoronaMaterial(OptionsOf(coronas[i]))
  /\ \A f \in DOMAIN flares :
       /\ DOMAIN flares[f].fallingBack = DOMAIN createFlareMaterial(flares[f].shaderOptions)
       /\ DOMAIN flares[f].flyAway = DOMAIN createFlareMaterial(flares[f].shaderOptions)

\* C14 witness: frames have advanced the time of the surface bank, of a corona's bank
\* and of both banks of a live flare
C14_Witness ==
  /\ last.op = "animate"
  /\ shader.uniforms.time > 0
  /\ \E i \in 1..Len(coronas) : coronas[i].uniforms.time > 0
  /\ \E f \in DOMAIN flares :
       /\ ~flares[f].destroyed
       /\ flares[f].fallingBack.time > 0
       /\ flares[f].flyAway.time > 0

\* C15: every animate call that leaves a flare alive sets the scale of every panel
\* of both layers to size*fade/10, fade = max(sin(pi*age/lifetime), 0) (held as 400
\* times the square: size*size*fade*fade*4); for a freshly spawned flare one
\* animate(lifetime/2) yields fade = 1 and the scale size/10 on every panel.
C15_PanelScale ==
  [][ \A f \in DOMAIN flares :
        (~flares[f].destroyed /\ AnimateRanOn(f) /\ ~flares'[f].destroyed) =>
          LET fl == flares'[f]
              size == fl.options.size
              fade2 == FadeSq(fl.age, fl.options.lifetime)
          IN  /\ ~fade2.nan
              /\ Len(fl.flyAwayScale) = fl.options.flareCount
              /\ Len(fl.fallingBackScale) = fl.options.flareCount
              /\ \A i \in 1..fl.options.flareCount :
                   /\ fl.flyAwayScale[i] = Num(size * size * fade2.val)
                   /\ fl.fallingBackScale[i] = Num(size * size * fade2.val)
              /\ (flares[f].age = 0 /\ 2 * fl.age = fl.options.lifetime) =>
                   /\ fade2 = Num(4)
                   /\ \A i \in 1..fl.options.flareCount :
                        /\ fl.flyAwayScale[i] = Num(4 * size * size)
                        /\ fl.fallingBackScale[i] = Num(4 * size * size)
    ]_vars

\* C15 witness: a flare of size 10 with two panels per layer and lifetime 2 was
\* animated to age 1, half its lifetime, and every panel has the scale 1 = size/10
C15_Witness ==
  /\ last.op \in {"animate", "flareAnimate"}
  /\ \E f \in DOMAIN flares :
       /\ (last.op = "flareAnimate" => last.flare = f)
       /\ (last.op = "animate" => f \in Range(last.visited))
       /\ ~flares[f].destroyed
       /\ flares[f].options.size = 10
       /\ flares[f].options.flareCount = 2
       /\ flares[f].options.lifetime = 2
       /\ flares[f].age = 1
       /\ flares[f].flyAwayScale = << Num(400), Num(400) >>
       /\ flares[f].fallingBackScale = << Num(400), Num(400) >>
       /\ flares[f].flyAway.opacity = Num(4)

\* C16: a frame animates a corona whose active option is false without changing its
\* rotationAccumulator, its reactive accumulator, the last body rotation and the last
\* viewer position it observed, or any value of its Parameter Bank, time included.
C16_InactiveCoronaUntouched ==
  [][ FrameRan =>
        \A i \in 1..Len(coronas) :
          ~OptionsOf(coronas[i]).active =>
            /\ coronas'[i].rotationAccumulator = coronas[i].rotationAccumulator
            /\ coronas'[i].reactiveRotationAccumulator
                 = coronas[i].reactiveRotationAccumulator
            /\ coronas'[i].lastSunRotation = coronas[i].lastSunRotation
            /\ coronas'[i].lastCameraPosition = coronas[i].lastCameraPosition
            /\ coronas'[i].uniforms = coronas[i].uniforms
    ]_vars

\* C17: every frame that animates an active corona updates its reactive accumulator,
\* per axis, to (accumulator + delta*rotationReactivity) * rotationDecay, delta being
\* the body's rotation since the frame before, whether or not the viewer moved past
\* the re-orientation threshold.
C17_ReactiveUpdateEveryFrame ==
  [][ FrameRan =>
        \A i \in 1..Len(coronas) :
          LET o == OptionsOf(coronas[i])
              delta == SunRotationDelta(coronas[i], sunMesh'.rotation)
          IN  o.active =>
                \A axis \in 1..3 :
                  coronas'[i].reactiveRotationAccumulator[axis]
                    = QMul(QAdd(coronas[i].reactiveRotationAccumulator[axis],
                                QMul(<<delta[axis], 1>>, ReactivityOf(o))),
                           DecayOf(o))
    ]_vars

\* the step just taken ran one scheduler cycle on a visible document with eruptions
\* switched on, under valid count and interval ranges
EnabledCycleRan ==
  /\ CycleRan /\ visible /\ active
  /\ cfg.count[1] <= cfg.count[2]
  /\ cfg.interval[1] <= cfg.interval[2]

\* C18: a scheduler cycle that runs while the document is visible and eruptions are
\* switched on, with valid count and interval ranges, constructs count flares, count
\* being a value the floored draw can yield and floor(minCount) <= count <= maxCount,
\* appends exactly these to the active list, in order, and arms exactly one next
\* timer whose delay lies in [minIntervalMs, maxIntervalMs].
C18_EnabledCycleSpawnsCount ==
  [][ EnabledCycleRan =>
        LET count == Len(flares') - Len(flares)
        IN  /\ count \in CountsOf(cfg)
            /\ cfg.count[1] \div cfg.den <= count
            /\ count * cfg.den <= cfg.count[2]
            /\ last'.spawned = count
            /\ solarFlares' = solarFlares \o [i \in 1..count |-> Len(flares) + i]
            /\ \A i \in 1..Len(flares) : flares'[i] = flares[i]
            /\ \A i \in 1..count : ~flares'[Len(flares) + i].destroyed
            /\ Cardinality(timers' \ timers) = 1
            /\ timers' \ timers = {solarEruptionIntervalId'}
            /\ cfg.interval[1] <= last'.delay
            /\ last'.delay <= cfg.interval[2]
    ]_vars

\* C18 witness: a timer fired on a visible document with eruptions switched on and
\* its cycle constructed one flare (the range 1..5 with a draw of 0), appended it to a
\* list that held one, and armed a timer 2750 ms ahead, inside the range 500..5000
C18_Witness ==
  /\ last.op = "fire"
  /\ visible /\ active
  /\ cfg.count = <<1, 5>>
  /\ cfg.interval = <<500, 5000>>
  /\ last.spawned = 1
  /\ solarFlares = <<1, 2>>
  /\ last.delay = 2750
  /\ solarEruptionIntervalId \in timers

\* C19: each orchestrator animate call adds direction[axis]*speed to the body's
\* rotation on every axis, once, without clamping or wrapping and whatever deltaTime
\* is; so n calls after initSun leave rotation = n*direction*speed on every axis.
C19_RotationStep ==
  [][ FrameRan =>
        \A axis \in 1..3 :
          sunMesh'.rotation[axis]
            = sunMesh.rotation[axis]
                + objects[optionsRef].rotation.direction[axis]
                    * objects[optionsRef].rotation.speed
    ]_vars

\* C19 witness: two frames of deltaTime 0 have turned a body with direction
\* (1, 0, -1) and speed 1 to (2, 0, -2)
C19_Witness ==
  /\ last.op = "animate"
  /\ elapsed = 0
  /\ objects[optionsRef].rotation = [direction |-> <<1, 0, -1>>, speed |-> 1]
  /\ sunMesh.rotation = <<2, 0, -2>>

\* C20: once initSun has been called with an options object, every animate call
\* leaves each tunable value of the surface shader's Parameter Bank equal to the
\* value of that object's shader options, and the bank's time equal to the sum of
\* the deltaTimes passed so far.
C20_SurfaceFollowsOptions ==
  last.op = "animate" =>
    /\ \A k \in DOMAIN objects[optionsRef].shader :
         shader.uniforms[k] = objects[optionsRef].shader[k]
    /\ shader.uniforms.time = elapsed

\* C21: each animate(deltaTime) call on a live flare advances the time uniform of
\* both of its materials by exactly deltaTime*turbulance (deltaTime being what the
\* call adds to the age), whatever flareCount and the shader speed option are.
C21_LayerTimeStep ==
  [][ \A f \in DOMAIN flares :
        (~flares[f].destroyed /\ AnimateRanOn(f)) =>
          LET step == (flares'[f].age - flares[f].age) * flares[f].options.turbulance
          IN  /\ flares'[f].fallingBack.time = flares[f].fallingBack.time + step
              /\ flares'[f].flyAway.time = flares[f].flyAway.time + step
    ]_vars

\* C22: after every animate call on a live flare with flareCount >= 1 the opacity
\* uniform of both materials is fade*fade for the fade of that call (held in
\* quarters; not a number when fade is not), never the configured
\* shaderOptions.opacity that SolarFlareService.animate wrote earlier in the call.
C22_OpacityIsFadeSquared ==
  [][ \A f \in DOMAIN flares :
        (~flares[f].destroyed /\ AnimateRanOn(f) /\ flares[f].options.flareCount >= 1) =>
          LET fade2 == FadeSq(flares'[f].age, flares'[f].options.lifetime)
          IN  /\ flares'[f].fallingBack.opacity = fade2
              /\ flares'[f].flyAway.opacity = fade2
    ]_vars

\* C22 witness: an animate call left a flare with panels alive at a fade other than
\* 1, so that both opacities (2 quarters) differ from the configured opacity (1.0)
C22_Witness ==
  /\ last.op \in {"animate", "flareAnimate"}
  /\ \E f \in DOMAIN flares :
       /\ (last.op = "flareAnimate" => last.flare = f /\ ~last.was)
       /\ (last.op = "animate" => f \in Range(last.visited))
       /\ ~flares[f].destroyed
       /\ flares[f].options.flareCount >= 1
       /\ flares[f].shaderOptions.opacity = 4
       /\ flares[f].fallingBack.opacity = Num(2)
       /\ flares[f].flyAway.opacity = Num(2)

\* C23: a flare whose flareCount is zero has no panel mesh, has no mesh in the scene
\* and is not spawned: it never enters the orchestrator's active flare list.
C23_NoPanelsNoSpawn ==
  \A f \in DOMAIN flares :
    flares[f].options.flareCount = 0 =>
      /\ flares[f].fallingBackMeshes = << >>
      /\ flares[f].flyAwayMeshes = << >>
      /\ \A m \in scene : m[1] # f
      /\ f \notin Range(solarFlares)

\* C24: an animate call on a live flare whose lifetime is zero or negative destroys
\* it, whatever deltaTime >= 0 is: after the call the flare is flagged destroyed, is
\* absent from the active list and has no mesh in the scene.  Such a flare is
\* therefore live only while it has never been animated.
C24_NonPositiveLifetimeEndsAtOnce ==
  [][ \A f \in DOMAIN flares :
        (~flares[f].destroyed /\ AnimateRanOn(f) /\ flares[f].options.lifetime <= 0) =>
          /\ flares[f].age = 0
          /\ flares'[f].destroyed
          /\ f \notin Range(solarFlares')
          /\ \A m \in scene' : m[1] # f
    ]_vars

\* C24 witness: animate(0) has run on a live flare with one panel per layer and a
\* lifetime of zero or below, and has destroyed it at age 0
C24_Witness ==
  /\ last.op = "flareAnimate"
  /\ ~last.was
  /\ LET fl == flares[last.flare]
     IN  /\ fl.options.lifetime <= 0
         /\ fl.options.flareCount = 1
         /\ fl.age = 0
         /\ fl.destroyed
         /\ last.flare \notin Range(solarFlares)
         /\ \A m \in scene : m[1] # last.flare

\* C25: while the render loop keeps calling animate with deltaTime at least one tick,
\* every flare that is in the active list is eventually flagged destroyed and out of
\* the list; and on every run in which, from some moment on, no eruption timer is
\* pending (the scheduler is stopped), the active list is, from some moment on, empty
\* for good.  Every lifetime of the model is finite.
C25_FlaresEventuallyEnd ==
  /\ \A f \in 1..MaxFlares :
       (f \in Range(solarFlares)) ~>
          (f \in DOMAIN flares /\ flares[f].destroyed /\ f \notin Range(solarFlares))
  /\ (<>[](timers = {})) => <>[](solarFlares = << >>)

\* C25 witness: the loop was stopped with no timer left pending, and the frames of the
\* render loop have since emptied a list that held two flares, one of them with a
\* positive lifetime
C25_Witness ==
  /\ halted = "stop"
  /\ timers = {}
  /\ last.op = "animate"
  /\ Len(flares) = 2
  /\ solarFlares = << >>
  /\ \A f \in DOMAIN flares : flares[f].destroyed
  /\ \E f \in DOMAIN flares : flares[f].options.lifetime > 0 /\ flares[f].age >= 2

\* the revisions of SunCorona that hold lastSunRotation and lastCameraPosition
KeepsCaches == revision \in {"part_007", "part_008"}

\* the step just taken ran animate on the coronas, corona i being active
ActiveFrameRan(i) == FrameRan /\ OptionsOf(coronas[i]).active

\* C26: the rotation stored by a corona changes in its active frames only, and every
\* active frame leaves in it the body's current rotation, so that it always holds
\* the rotation of the previous active frame.  The delta a frame feeds into the
\* reactive accumulator is, per axis, the current rotation minus that stored one,
\* and zero in the first active frame, which has none stored.
C26_RotationDelta ==
  [][ KeepsCaches =>
        \A i \in 1..Len(coronas) :
          LET c == coronas[i]
              o == OptionsOf(c)
              now == sunMesh'.rotation
              delta == [axis \in 1..3 |->
                          IF c.lastSunRotation.defined
                          THEN now[axis] - c.lastSunRotation.value[axis]
                          ELSE 0]
          IN  IF ActiveFrameRan(i)
              THEN /\ coronas'[i].lastSunRotation = Some(now)
                   /\ coronas'[i].reactiveRotationAccumulator
                        # c.reactiveRotationAccumulator
                      => \A axis \in 1..3 :
                           coronas'[i].reactiveRotationAccumulator[axis]
                             = QMul(QAdd(c.reactiveRotationAccumulator[axis],
                                         QMul(<<delta[axis], 1>>, ReactivityOf(o))),
                                    DecayOf(o))
              ELSE coronas'[i].lastSunRotation = c.lastSunRotation
    ]_vars

\* C26 witness: an active corona has run its first active frame, which stored the
\* body's rotation (1, 0, -1) and fed a delta of zero, and then a second one, which
\* stored (2, 0, -2) and fed the turn since the first
C26_Witness ==
  /\ KeepsCaches
  /\ last.op = "animate"
  /\ \E i \in 1..Len(coronas) :
       /\ OptionsOf(coronas[i]).active
       /\ coronas[i].lastSunRotation = Some(sunMesh.rotation)
       /\ sunMesh.rotation = <<2, 0, -2>>
       /\ coronas[i].reactiveRotationAccumulator = << <<1, 4>>, <<0, 1>>, <<-1, 4>> >>

\* C27: every active frame of a corona whose syncWithSun is set (and whose
\* enableMultiAxisReaction is unset, as everywhere in the model) leaves the mesh's
\* z-rotation at bodyRotation.y * speed plus the z-component the reactive accumulator
\* had when the frame began, the value the previous frame left.
C27_SyncedRotation ==
  [][ KeepsCaches =>
        \A i \in 1..Len(coronas) :
          LET o == OptionsOf(coronas[i])
          IN  (ActiveFrameRan(i) /\ o.syncWithSun) =>
                coronas'[i].meshRotationZ
                  = [q |-> QAdd(<<sunMesh'.rotation[2] * o.speed, 1>>,
                                coronas[i].reactiveRotationAccumulator[3]),
                     turns |-> 0]
    ]_vars

\* C28: every active frame of a corona whose syncWithSun is unset adds
\* deltaTime * speed to its rotationAccumulator (q is the sum before any wrapping,
\* turns the whole turns the wrapping took out), whether or not the viewer moved.
C28_SpinEveryFrame ==
  [][ KeepsCaches =>
        \A i \in 1..Len(coronas) :
          LET o == OptionsOf(coronas[i])
          IN  (ActiveFrameRan(i) /\ ~o.syncWithSun) =>
                coronas'[i].rotationAccumulator.q
                  = coronas[i].rotationAccumulator.q + (elapsed' - elapsed) * o.speed
    ]_vars

\* C29: the rotationAccumulator of a corona whose wrapRotation is set (it is, from
\* construction on, in every configuration) lies within [-2*pi, 2*pi] at all times,
\* for every sequence of frame times and either sign of speed.
C29_AccumulatorWrapped ==
  \A i \in 1..Len(coronas) :
    OptionsOf(coronas[i]).wrapRotation =>
      Abs(Angle4(coronas[i].rotationAccumulator)) <= TwoPi4

\* C29 witness: a corona of speed 4 has spun past 2*pi and one of speed -4 past
\* -2*pi; the wrap has taken a whole turn out of each
C29_Witness ==
  /\ last.op = "animate"
  /\ KeepsCaches
  /\ \E i \in 1..Len(coronas), j \in 1..Len(coronas) :
       /\ OptionsOf(coronas[i]).speed > 0 /\ OptionsOf(coronas[j]).speed < 0
       /\ coronas[i].rotationAccumulator = [q |-> 8, turns |-> 1]
       /\ coronas[j].rotationAccumulator = [q |-> -8, turns |-> -1]

\* the viewer positions p and q are no farther apart than the threshold 0.001, which
\* is two units of a viewer position
WithinThreshold(p, q) ==
  (p[1] - q[1]) * (p[1] - q[1]) + (p[2] - q[2]) * (p[2] - q[2])
    + (p[3] - q[3]) * (p[3] - q[3]) <= 2 * 2

\* C30: an active frame re-orients the corona exactly if it has no cached viewer
\* position or the viewer is farther than 0.001 from the cached one, and then caches
\* the position it turned to; otherwise orientation and cache stay.  After every
\* active frame the cached position is therefore within the threshold of the viewer,
\* also when the viewer drifts in steps below the threshold.
C30_ViewerHysteresis ==
  [][ KeepsCaches =>
        \A i \in 1..Len(coronas) :
          ActiveFrameRan(i) =>
            LET c == coronas[i]
                d == coronas'[i]
                viewer == camera.position
                far == \/ ~c.lastCameraPosition.defined
                       \/ ~WithinThreshold(c.lastCameraPosition.value, viewer)
            IN  /\ far => d.lookedAt = Some(viewer) /\ d.lastCameraPosition = Some(viewer)
                /\ ~far => /\ d.lookedAt = c.lookedAt
                           /\ d.lastCameraPosition = c.lastCameraPosition
                /\ d.lastCameraPosition.defined
                /\ WithinThreshold(d.lastCameraPosition.value, camera'.position)
    ]_vars

\* C30 witness: the corona was turned to a viewer who then moved on by 0.001, the
\* threshold itself; the active frame after the move left orientation and cache
\* where they were, within the threshold of the viewer
C30_Witness ==
  /\ KeepsCaches
  /\ last.op = "animate"
  /\ camera.position = <<0, 0, 10003>>
  /\ \E i \in 1..Len(coronas) :
       /\ OptionsOf(coronas[i]).active
       /\ coronas[i].lookedAt = Some(<<0, 0, 10001>>)
       /\ coronas[i].lastCameraPosition = Some(<<0, 0, 10001>>)
       /\ coronas[i].lastSunRotation = Some(sunMesh.rotation)

\* C31: for a body that has never rotated (zero deltas, reactive accumulator zero on
\* all axes) an active frame that spins the corona leaves its z-rotation at the
\* value the spin gives it, the rotationAccumulator, whether
\* enableMultiAxisReaction is set or not.
C31_WobbleNeedsMotion ==
  [][ KeepsCaches =>
        \A i \in 1..Len(coronas) :
          LET d == coronas'[i]
          IN  ( /\ ActiveFrameRan(i)
                /\ sunMesh'.rotation = <<0, 0, 0>>
                /\ \A axis \in 1..3 : coronas[i].reactiveRotationAccumulator[axis][1] = 0
                /\ d.rotationAccumulator # coronas[i].rotationAccumulator ) =>
                d.meshRotationZ
                  = [q |-> <<d.rotationAccumulator.q, 1>>,
                     turns |-> d.rotationAccumulator.turns]
    ]_vars

\* C32: the configured option values are the ones the reactive update uses, 0
\* included: an active frame of a corona with rotationReactivity 0 leaves the
\* reactive accumulator at zero whatever the body's rotation change, and for a
\* pulsing corona with reactiveScaling 0 the scale after the frame is
\* baseScale + pulseAmount, with nothing added for the rotation intensity.
C32_ZeroOptionsAreUsed ==
  [][ KeepsCaches =>
        \A i \in 1..Len(coronas) :
          LET o == OptionsOf(coronas[i])
              d == coronas'[i]
          IN  ActiveFrameRan(i) =>
                /\ o.rotationReactivity[1] = 0 =>
                     \A axis \in 1..3 : d.reactiveRotationAccumulator[axis][1] = 0
                /\ (o.enablePulsing /\ o.reactiveScaling[1] = 0) =>
                     d.meshScale = QAdd(<<o.scale, 1>>,
                                        PulseAmount(d.rotationAccumulator, o))
    ]_vars

\* C33: no component writes into another: flare.animate on a flare leaves the age,
\* the meshes and both uniform sets of every other flare as they were;
\* corona.animate on a corona leaves the uniforms of every flare and of every other
\* corona as they were; the surface shader's update leaves the uniforms of every
\* flare and of every corona as they were.
C33_NoCrossWrites ==
  [][ /\ last'.op = "flareAnimate" =>
           \A b \in DOMAIN flares \ {last'.flare} :
             /\ flares'[b].age = flares[b].age
             /\ flares'[b].fallingBackMeshes = flares[b].fallingBackMeshes
             /\ flares'[b].flyAwayMeshes = flares[b].flyAwayMeshes
             /\ flares'[b].fallingBack = flares[b].fallingBack
             /\ flares'[b].flyAway = flares[b].flyAway
      /\ last'.op \in {"coronaAnimate", "shaderUpdate"} =>
           /\ \A b \in DOMAIN flares :
                /\ flares'[b].fallingBack = flares[b].fallingBack
                /\ flares'[b].flyAway = flares[b].flyAway
           /\ \A j \in (1..Len(coronas)) \ {last'.corona} :
                coronas'[j].uniforms = coronas[j].uniforms
    ]_vars

\* the first flare was animated and the second was not; the second corona, switched
\* on, was animated twice and the first was not; the surface shader was updated once
C33_Witness ==
  /\ Len(flares) = 2 /\ Len(coronas) = 2
  /\ flares[1].destroyed /\ ~flares[2].destroyed
  /\ flares[1].fallingBack.time > 0 /\ flares[2].fallingBack.time = 0
  /\ flares[2].age = 0
  /\ OptionsOf(coronas[1]).active /\ OptionsOf(coronas[2]).active
  /\ coronas[1].uniforms.time = 0 /\ coronas[2].uniforms.time = 4
  /\ shader.uniforms.time = 1
  /\ last.op = "coronaAnimate" /\ last.corona = 2

\* C34: under any sequence of spawnSolarFlare, animate and destroy calls on the
\* flares and of orchestrator frames, every flare occurs at most once in the
\* orchestrator's list, and no destroyed flare is in the list or has a mesh in the
\* scene.
C34_ActiveListIntegrity ==
  /\ \A i, j \in 1..Len(solarFlares) : i # j => solarFlares[i] # solarFlares[j]
  /\ \A f \in DOMAIN flares :
       flares[f].destroyed =>
         /\ \A i \in 1..Len(solarFlares) : solarFlares[i] # f
         /\ \A mesh \in scene : mesh[1] # f

\* C35: while syncWithSun is set, a frame never changes the corona's
\* rotationAccumulator, so the pulsing term
\* sin(rotationAccumulator * pulseFrequency) * pulseAmplitude is the same before
\* and after it.
C35_SyncedAccumulatorRests ==
  [][ \A i \in 1..Len(coronas) :
        LET o == OptionsOf(coronas[i])
        IN  (FrameRan /\ o.syncWithSun) =>
              /\ coronas'[i].rotationAccumulator = coronas[i].rotationAccumulator
              /\ PulseAmount(coronas'[i].rotationAccumulator, o)
                   = PulseAmount(coronas[i].rotationAccumulator, o)
    ]_vars

\* a pulsing corona with syncWithSun set, after active frames in which the body
\* turned and the scale was pulsed: its accumulator is still 0
C35_Witness ==
  /\ KeepsCaches
  /\ last.op = "animate"
  /\ sunMesh.rotation[2] >= 2
  /\ \E i \in 1..Len(coronas) :
       LET o == OptionsOf(coronas[i])
       IN  /\ o.active /\ o.syncWithSun /\ o.enablePulsing
           /\ coronas[i].lastSunRotation = Some(sunMesh.rotation)
           /\ coronas[i].meshScale # <<1, 1>>
           /\ coronas[i].meshRotationZ.q # <<0, 1>>
           /\ coronas[i].rotationAccumulator = [q |-> 0, turns |-> 0]

\* C36: the last observed body rotation is not refreshed while a corona is
\* inactive: an inactive frame leaves lastSunRotation as it was and an active frame
\* sets it to the body's rotation, so on the first active frame after inactive ones
\* the delta the reactive update accumulates is the body's rotation now minus its
\* rotation at the corona's last active frame, the change of all the frames since.
C36_DeltaSpansInactiveFrames ==
  [][ KeepsCaches =>
        \A i \in 1..Len(coronas) :
          LET c == coronas[i]
              d == coronas'[i]
              o == OptionsOf(coronas[i])
          IN  /\ (FrameRan /\ ~o.active) => d.lastSunRotation = c.lastSunRotation
              /\ ActiveFrameRan(i) => d.lastSunRotation = Some(sunMesh'.rotation)
              /\ ( /\ ActiveFrameRan(i)
                   /\ ~c.visible
                   /\ c.lastSunRotation.defined
                   /\ (revision = "part_007" \/ Reorients(c, camera.position)) ) =>
                   \A axis \in 1..3 :
                     d.reactiveRotationAccumulator[axis]
                       = QMul(QAdd(c.reactiveRotationAccumulator[axis],
                                   QMul(<<sunMesh'.rotation[axis]
                                            - c.lastSunRotation.value[axis], 1>>,
                                        ReactivityOf(o))),
                              DecayOf(o))
    ]_vars

\* a corona of reactivity 1 and decay 1/4 about a body that turns by (1, 0, -1) a
\* frame: an accumulator of (1/2, 0, -1/2) after the third frame is (0 + 2) / 4, the
\* delta of two frames taken in from rest; a delta of one frame never gives it
C36_Witness ==
  /\ KeepsCaches
  /\ last.op = "animate"
  /\ sunMesh.rotation = <<3, 0, -3>>
  /\ \E i \in 1..Len(coronas) :
       /\ OptionsOf(coronas[i]).active
       /\ OptionsOf(coronas[i]).rotationReactivity = <<1, 1>>
       /\ OptionsOf(coronas[i]).rotationDecay = <<1, 4>>
       /\ coronas[i].visible
       /\ coronas[i].lastSunRotation = Some(<<3, 0, -3>>)
       /\ coronas[i].reactiveRotationAccumulator = << <<1, 2>>, <<0, 1>>, <<-1, 2>> >>

\* C37: for every editor input, colour inputs included, resetValue restores the
\* value the input had when initValue ran, after any sequence of triggerChange
\* and resetValue calls.
C37_ResetRestoresInitial ==
  [][ last'.op = "resetValue" => Shown(input'.value, input'.colors) = input.atInit
    ]_vars

====
